---- MODULE Spec2Model ----
(***************************************************************************)
(* Model of gho's account lifecycle: the accounts document on disk, the    *)
(* keychain, and the add / switch / remove commands of                     *)
(* src/src/commands/account.rs, stepped at their I/O calls                 *)
(* (load_accounts, store_token, delete_token, save_accounts).              *)
(*                                                                         *)
(* Option<T> is modelled as a sequence: <<>> is None, <<x>> is Some(x).    *)
(* Result<_, AppError> is modelled by the name of the AppError variant,    *)
(* "Ok" for success.                                                       *)
(*                                                                         *)
(* A failing save_accounts is modelled as writing nothing (create_dir_all  *)
(* or serialisation failing, or the write being refused).                  *)
(***************************************************************************)
EXTENDS Integers, Sequences, FiniteSets, TLC

\* ------------------------------------------------------------------ bounds
NumIds == 2
NumProcs == 2

Ids == 1..NumIds
\* the secrets passed to `account add`
Tokens == {"tok-aaa", "tok-bbb"}
Procs == 1..NumProcs
\* sequential use: one CLI invocation at a time
SeqProcs == {1}

\* ------------------------------------------------------------ data model
AccountKind == {"personal", "work"}

Protocol == {"ssh", "https"}

\* the remaining arguments of `account add` (username, default_org,
\* protocol, clone_dir), drawn from two representative combinations
Profiles ==
    { [username |-> "alice", default_org |-> <<>>, protocol |-> "ssh",
       clone_dir |-> <<>>],
      [username |-> "bob", default_org |-> <<"org">>, protocol |-> "https",
       clone_dir |-> <<"dir">>] }

\* the accounts `account add` is run with: the personal account of alice
\* (no default_org, no clone_dir, ssh) and the work account of bob
AddArgs ==
    {x \in [kind : AccountKind, profile : Profiles] :
        (x.kind = "personal") = (x.profile.username = "alice")}

Account(id, kind, profile) ==
    [id |-> id, kind |-> kind, username |-> profile.username,
     default_org |-> profile.default_org, protocol |-> profile.protocol,
     clone_dir |-> profile.clone_dir]

\* AccountsFile::default()
AccountsFileDefault ==
    [personal |-> <<>>, work |-> <<>>, active_account_id |-> <<>>]

\* mutant of all_accounts: the work accounts come first
all_accounts_work_first(f) == f.work \o f.personal

all_accounts(f) == f.personal \o f.work

\* mutant of find_account: only the personal partition is searched
find_account_personal_only(f, id) ==
    LET s == SelectSeq(f.personal, LAMBDA a : a.id = id)
    IN  IF s = <<>> THEN <<>> ELSE <<s[1]>>

find_account(f, id) ==
    LET s == SelectSeq(all_accounts(f), LAMBDA a : a.id = id)
    IN  IF s = <<>> THEN <<>> ELSE <<s[1]>>

\* mutant of active_account: the first account, whatever the pointer says
active_account_first(f) ==
    IF f.active_account_id = <<>> \/ all_accounts(f) = <<>> THEN <<>>
    ELSE <<all_accounts(f)[1]>>

active_account(f) ==
    IF f.active_account_id = <<>> THEN <<>>
    ELSE find_account(f, f.active_account_id[1])

\* mutant of add_account: the kind is not looked at
add_account_personal(f, account) ==
    [f EXCEPT !.personal = Append(@, account)]

add_account(f, account) ==
    IF account.kind = "personal"
    THEN [f EXCEPT !.personal = Append(@, account)]
    ELSE [f EXCEPT !.work = Append(@, account)]

\* iter().position(|a| a.id == id): first index, 0 when there is none
position(s, id) ==
    LET hits == {i \in 1..Len(s) : s[i].id = id}
    IN  IF hits = {} THEN 0
        ELSE CHOOSE i \in hits : \A j \in hits : i <= j

\* Vec::remove(pos)
vec_remove(s, pos) ==
    [i \in 1..(Len(s) - 1) |-> IF i < pos THEN s[i] ELSE s[i + 1]]

\* the active pointer after removing `id`
\* mutant: the pointer is left dangling
clear_active_never(f, id) == f.active_account_id

\* mutant: removing any account clears the pointer
clear_active_always(f, id) == <<>>

clear_active(f, id) ==
    IF f.active_account_id = <<id>> THEN <<>> ELSE f.active_account_id

\* remove_account: the registry afterwards and the removed record
remove_account(f, id) ==
    LET pp == position(f.personal, id)
        pw == position(f.work, id)
    IN  IF pp # 0
        THEN [accounts |-> [f EXCEPT !.active_account_id = clear_active(f, id),
                                     !.personal = vec_remove(@, pp)],
              removed |-> <<f.personal[pp]>>]
        ELSE IF pw # 0
        THEN [accounts |-> [f EXCEPT !.active_account_id = clear_active(f, id),
                                     !.work = vec_remove(@, pw)],
              removed |-> <<f.work[pw]>>]
        ELSE [accounts |-> f, removed |-> <<>>]

\* ------------------------------------------------- the accounts document
\* A JSON object is a function from the keys that are present to values.
AccountToJson(a) ==
    LET keys == {"id", "kind", "username", "protocol"}
                \cup (IF a.default_org = <<>> THEN {} ELSE {"default_org"})
                \cup (IF a.clone_dir = <<>> THEN {} ELSE {"clone_dir"})
    IN  [k \in keys |->
            CASE k = "id" -> a.id
              [] k = "kind" -> a.kind
              [] k = "username" -> a.username
              [] k = "protocol" -> a.protocol
              [] k = "default_org" -> a.default_org[1]
              [] k = "clone_dir" -> a.clone_dir[1]]

\* mutant of AccountFromJson: default_org is read under another key
AccountFromJsonWrongKey(j) ==
    [id |-> j["id"], kind |-> j["kind"], username |-> j["username"],
     default_org |-> IF "org" \in DOMAIN j THEN <<j["org"]>> ELSE <<>>,
     protocol |-> IF "protocol" \in DOMAIN j THEN j["protocol"] ELSE "ssh",
     clone_dir |-> IF "clone_dir" \in DOMAIN j
                   THEN <<j["clone_dir"]>> ELSE <<>>]

AccountFromJson(j) ==
    [id |-> j["id"], kind |-> j["kind"], username |-> j["username"],
     default_org |-> IF "default_org" \in DOMAIN j
                     THEN <<j["default_org"]>> ELSE <<>>,
     protocol |-> IF "protocol" \in DOMAIN j THEN j["protocol"] ELSE "ssh",
     clone_dir |-> IF "clone_dir" \in DOMAIN j
                   THEN <<j["clone_dir"]>> ELSE <<>>]

AccountsToJson(f) ==
    LET keys == {"personal", "work"}
                \cup (IF f.active_account_id = <<>> THEN {}
                      ELSE {"active_account_id"})
    IN  [k \in keys |->
            CASE k = "personal" ->
                    [i \in 1..Len(f.personal) |-> AccountToJson(f.personal[i])]
              [] k = "work" ->
                    [i \in 1..Len(f.work) |-> AccountToJson(f.work[i])]
              [] k = "active_account_id" -> f.active_account_id[1]]

AccountsFromJson(j) ==
    [personal |-> IF "personal" \in DOMAIN j
                  THEN [i \in 1..Len(j["personal"]) |->
                            AccountFromJson(j["personal"][i])]
                  ELSE <<>>,
     work |-> IF "work" \in DOMAIN j
              THEN [i \in 1..Len(j["work"]) |-> AccountFromJson(j["work"][i])]
              ELSE <<>>,
     active_account_id |-> IF "active_account_id" \in DOMAIN j
                           THEN <<j["active_account_id"]>> ELSE <<>>]

\* --------------------------------------------------------------- state
VARIABLES
    doc,        \* the accounts document: <<>> no file, <<json>> its content
    vault,      \* keychain: vault[id] is <<>> or <<token>>
    pc,         \* pc[p]: where invocation p stands
    op,         \* op[p]: the command and arguments of invocation p
    accounts,   \* accounts[p]: the `accounts` local of invocation p
    calls,      \* calls[p]: the storage / keychain calls p has made so far
    result,     \* result[p]: what the command returned
    pre,        \* pre[p]: <<document, vault>> as they were when p started
    value,      \* value[p]: <<>> or <<v>>, the value inside a returned Ok(v)
    env,        \* the GH_TOKEN and GITHUB_TOKEN environment variables
    exit,       \* exit[p]: <<>> or <<[code, stderr]>>, how process p ended
    state_doc,  \* the state document: <<>> no file, <<json>> its content
    repos,      \* repos[p]: the repositories clone_org has still to go through
    cloned,     \* cloned[p]: the `cloned` local of clone_org
    doc2,       \* the accounts document of the twin run
    accounts2,  \* accounts2[p]: the `accounts` local in the twin run
    history     \* history[id]: the secret of the latest successful add(id),
                \* and the secret the latest successful remove(id) removed

vars == <<doc, vault, pc, op, accounts, calls, result, pre, value, env,
          exit, state_doc, repos, cloned, doc2, accounts2, history>>

\* what the account commands never touch
repo_vars == <<state_doc, repos, cloned>>

\* the twin run, which only the specification of two runs moves
twin_vars == <<doc2, accounts2>>

\* nothing has been added or removed yet
NoHistory == [i \in Ids |-> [secret |-> <<>>, removed |-> <<>>]]

NoOp == [name |-> "none"]

Call(name, id, ok) == [call |-> name, id |-> id, ok |-> ok]

\* FilesystemStorage::load_accounts on a readable document
load_accounts == IF doc = <<>> THEN AccountsFileDefault
                 ELSE AccountsFromJson(doc[1])

\* the registry a reader of the document sees
Registry == load_accounts

\* the registry held by a document
RegistryOf(d) == IF d = <<>> THEN AccountsFileDefault ELSE AccountsFromJson(d[1])

\* no invocation has started
NoneStarted ==
    /\ pc = [p \in Procs |-> "idle"]
    /\ op = [p \in Procs |-> NoOp]
    /\ accounts = [p \in Procs |-> AccountsFileDefault]
    /\ calls = [p \in Procs |-> <<>>]
    /\ result = [p \in Procs |-> "none"]
    /\ pre = [p \in Procs |-> <<>>]
    /\ value = [p \in Procs |-> <<>>]
    /\ exit = [p \in Procs |-> <<>>]
    /\ repos = [p \in Procs |-> <<>>]
    /\ cloned = [p \in Procs |-> <<>>]
    /\ accounts2 = [p \in Procs |-> AccountsFileDefault]
    /\ history = NoHistory

\* neither override of get_token is set
EnvUnset == [GH_TOKEN |-> <<>>, GITHUB_TOKEN |-> <<>>]

\* no accounts document, an empty keychain, no token in the environment
Init ==
    /\ doc = <<>>
    /\ vault = [i \in Ids |-> <<>>]
    /\ env = EnvUnset
    /\ state_doc = <<>>
    /\ doc2 = doc
    /\ NoneStarted

AllIdle == \A p \in Procs : pc[p] = "idle"

\* the stores as a starting invocation finds them
Snapshot == [doc |-> doc, vault |-> vault, state_doc |-> state_doc]

\* `?` on a failed load_accounts: the command returns the error at once;
\* there is a document, which cannot be read or parsed
LoadFails(p, o, err) ==
    /\ pc[p] = "idle"
    /\ doc # <<>>
    /\ op' = [op EXCEPT ![p] = o]
    /\ pre' = [pre EXCEPT ![p] = <<Snapshot>>]
    /\ calls' = [calls EXCEPT ![p] = <<Call("load_accounts", 0, FALSE)>>]
    /\ result' = [result EXCEPT ![p] = err]
    /\ pc' = [pc EXCEPT ![p] = "done"]
    /\ UNCHANGED <<doc, vault, accounts, value, env, exit>>

\* the part every command starts with: a successful load_accounts
Loaded(p, o) ==
    /\ pc[p] = "idle"
    /\ op' = [op EXCEPT ![p] = o]
    /\ pre' = [pre EXCEPT ![p] = <<Snapshot>>]
    /\ calls' = [calls EXCEPT ![p] = <<Call("load_accounts", 0, TRUE)>>]

\* ---------------------------------------------------------------- keychain
\* mutant: every secret is kept in one entry, whatever the id
store_token_one_entry(v, id, token) == [v EXCEPT ![1] = <<token>>]

\* store_token: set_password creates or overwrites the entry
store_token(v, id, token) == [v EXCEPT ![id] = <<token>>]

\* delete_token: delete_credential removes the entry; it fails when the
\* store refuses (ok = FALSE) or when there is no entry to delete
delete_token_ok(v, id, ok) == ok /\ v[id] # <<>>

delete_token(v, id, ok) ==
    IF delete_token_ok(v, id, ok) THEN [v EXCEPT ![id] = <<>>] ELSE v

\* get_token: GH_TOKEN, then GITHUB_TOKEN, then the entry of the id; <<>> is
\* the Keychain error of a missing entry or of a store that refuses
\* the value of an environment variable that is set to bytes which are not
\* valid Unicode
NotUnicode == <<"not", "unicode">>

\* std::env::var: Ok(text) as <<text>>; Err, as <<>>, when the variable is
\* not set and when its value is not valid Unicode
env_var(x) == IF x = NotUnicode THEN <<>> ELSE x

\* keychain.rs 21-26: the two `if let Ok(token)` fail, so the store is asked
asks_keyring(e) == env_var(e.GH_TOKEN) = <<>> /\ env_var(e.GITHUB_TOKEN) = <<>>

\* mutant: the store is asked first, the environment only when it has nothing
get_token_store_first(v, e, id, ok) ==
    IF ok /\ v[id] # <<>> THEN v[id]
    ELSE IF env_var(e.GH_TOKEN) # <<>> THEN env_var(e.GH_TOKEN)
    ELSE env_var(e.GITHUB_TOKEN)

get_token(v, e, id, ok) ==
    IF env_var(e.GH_TOKEN) # <<>> THEN env_var(e.GH_TOKEN)
    ELSE IF env_var(e.GITHUB_TOKEN) # <<>> THEN env_var(e.GITHUB_TOKEN)
    ELSE IF ok /\ v[id] # <<>> THEN v[id]
    ELSE <<>>

\* the call of get_token in the log, with whether it went to the store
GetTokenCall(e, id, token) ==
    [call |-> "get_token", id |-> id, ok |-> token # <<>>,
     keyring |-> asks_keyring(e)]

\* ----------------------------------------------------------------- finish
Finish(p, res) ==
    /\ result' = [result EXCEPT ![p] = res]
    /\ pc' = [pc EXCEPT ![p] = "done"]
    /\ UNCHANGED <<value, env, exit>>

\* return Ok(v)
FinishWith(p, v) ==
    /\ result' = [result EXCEPT ![p] = "Ok"]
    /\ value' = [value EXCEPT ![p] = <<v>>]
    /\ pc' = [pc EXCEPT ![p] = "done"]
    /\ UNCHANGED <<env, exit>>

Goto(p, label) ==
    /\ pc' = [pc EXCEPT ![p] = label]
    /\ UNCHANGED <<result, value, env, exit>>

Log(p, c) == calls' = [calls EXCEPT ![p] = Append(@, c)]

\* save_accounts(&accounts) succeeding: the document is overwritten
WriteDoc(p) == doc' = <<AccountsToJson(accounts[p])>>

\* -------------------------------------------------------------------- add
\* account.rs 20-25: load, then the duplicate check
AddBegin(p, id, kind, profile, token) ==
    /\ Loaded(p, [name |-> "add", id |-> id, kind |-> kind,
                  profile |-> profile, token |-> token])
    /\ accounts' = [accounts EXCEPT ![p] = load_accounts]
    /\ IF find_account(load_accounts, id) # <<>>
       THEN Finish(p, "InvalidInput")
       ELSE Goto(p, "add_store")
    /\ UNCHANGED <<doc, vault>>

AddLoadFails(p, id, kind, profile, token, err) ==
    LoadFails(p, [name |-> "add", id |-> id, kind |-> kind,
                  profile |-> profile, token |-> token], err)

\* mutant: the account record keeps the secret, in its default_org
new_account_keeping_token(o) ==
    [Account(o.id, o.kind, o.profile) EXCEPT !.default_org = <<o.token>>]

\* account.rs 27-34: `Account { id, kind, username, default_org, protocol,
\* clone_dir }`, built from the arguments of add
new_account(o) == Account(o.id, o.kind, o.profile)

\* account.rs 42-45
\* mutant: every added account becomes the active one
make_active_always(f, id) == [f EXCEPT !.active_account_id = <<id>>]

\* mutant: only the first account of a registry becomes the active one
make_active_if_first(f, id) ==
    IF Len(all_accounts(f)) <= 1
    THEN [f EXCEPT !.active_account_id = <<id>>]
    ELSE f

make_active_if_none(f, id) ==
    IF f.active_account_id = <<>>
    THEN [f EXCEPT !.active_account_id = <<id>>]
    ELSE f

\* mutant of AddStore: the error of store_token is dropped and add goes on
AddStoreIgnoringError(p) ==
    /\ pc[p] = "add_store"
    /\ \E ok \in BOOLEAN :
        /\ Log(p, Call("store_token", op[p].id, ok))
        /\ vault' = IF ok THEN store_token(vault, op[p].id, op[p].token)
                    ELSE vault
        /\ accounts' = [accounts EXCEPT ![p] =
              make_active_if_none(
                  add_account(@, new_account(op[p])),
                  op[p].id)]
        /\ Goto(p, "add_save")
    /\ UNCHANGED <<doc, op, pre>>

\* account.rs 36-45: store the token, then add the account to the local
\* registry and make it active when there is no active account
AddStore(p) ==
    /\ pc[p] = "add_store"
    /\ \E ok \in BOOLEAN :
        /\ Log(p, Call("store_token", op[p].id, ok))
        /\ IF ok
           THEN /\ vault' = store_token(vault, op[p].id, op[p].token)
                /\ accounts' = [accounts EXCEPT ![p] =
                      make_active_if_none(
                          add_account(@, new_account(op[p])),
                          op[p].id)]
                /\ Goto(p, "add_save")
           ELSE /\ Finish(p, "Keychain")
                /\ UNCHANGED <<vault, accounts>>
    /\ UNCHANGED <<doc, op, pre>>

\* mutant of AddSave: the save merges the added account into the document
\* as it is now, instead of overwriting it with the registry it loaded
AddSaveMerging(p) ==
    /\ pc[p] = "add_save"
    /\ \E ok \in BOOLEAN :
        /\ Log(p, Call("save_accounts", 0, ok))
        /\ IF ok
           THEN /\ doc' = <<AccountsToJson(make_active_if_none(
                              add_account(load_accounts, new_account(op[p])),
                              op[p].id))>>
                /\ Finish(p, "Ok")
           ELSE Goto(p, "add_rollback") /\ UNCHANGED doc
    /\ UNCHANGED <<vault, op, accounts, pre>>

\* account.rs 48, 53
AddSave(p) ==
    /\ pc[p] = "add_save"
    /\ \E ok \in BOOLEAN :
        /\ Log(p, Call("save_accounts", 0, ok))
        /\ IF ok
           THEN WriteDoc(p) /\ Finish(p, "Ok")
           ELSE Goto(p, "add_rollback") /\ UNCHANGED doc
    /\ UNCHANGED <<vault, op, accounts, pre>>

\* the error add returns after the rollback
\* mutant: `delete_token(id)?`, the error of the cleanup is returned
rollback_error_propagating(deleteOk) == IF deleteOk THEN "Io" ELSE "Keychain"

rollback_error(deleteOk) == "Io"

\* mutant of AddRollback: the save error is returned without the cleanup
AddRollbackSkipped(p) ==
    /\ pc[p] = "add_rollback"
    /\ Finish(p, "Io")
    /\ UNCHANGED <<doc, vault, op, accounts, calls, pre>>

\* account.rs 49-51: `let _ = delete_token(id); return Err(e)`
AddRollback(p) ==
    /\ pc[p] = "add_rollback"
    /\ \E ok \in BOOLEAN :
        /\ Log(p, Call("delete_token", op[p].id,
                       delete_token_ok(vault, op[p].id, ok)))
        /\ vault' = delete_token(vault, op[p].id, ok)
        /\ Finish(p, rollback_error(delete_token_ok(vault, op[p].id, ok)))
    /\ UNCHANGED <<doc, op, accounts, pre>>

\* ----------------------------------------------------------------- switch
\* mutant of SwitchBegin: the existence check is missing
SwitchBeginUnchecked(p, id) ==
    /\ Loaded(p, [name |-> "switch", id |-> id])
    /\ accounts' = [accounts EXCEPT ![p] =
                        [load_accounts EXCEPT !.active_account_id = <<id>>]]
    /\ Goto(p, "switch_save")
    /\ UNCHANGED <<doc, vault>>

\* account.rs 63-69
SwitchBegin(p, id) ==
    /\ Loaded(p, [name |-> "switch", id |-> id])
    /\ IF find_account(load_accounts, id) = <<>>
       THEN /\ accounts' = [accounts EXCEPT ![p] = load_accounts]
            /\ Finish(p, "AccountNotFound")
       ELSE /\ accounts' = [accounts EXCEPT ![p] =
                   [load_accounts EXCEPT !.active_account_id = <<id>>]]
            /\ Goto(p, "switch_save")
    /\ UNCHANGED <<doc, vault>>

SwitchLoadFails(p, id, err) == LoadFails(p, [name |-> "switch", id |-> id], err)

\* mutant of SwitchSave: only the pointer is written, into the document as
\* it is now
SwitchSavePointerOnly(p) ==
    /\ pc[p] = "switch_save"
    /\ \E ok \in BOOLEAN :
        /\ Log(p, Call("save_accounts", 0, ok))
        /\ IF ok
           THEN /\ doc' = <<AccountsToJson(
                       [load_accounts EXCEPT !.active_account_id =
                           accounts[p].active_account_id])>>
                /\ Finish(p, "Ok")
           ELSE Finish(p, "Io") /\ UNCHANGED doc
    /\ UNCHANGED <<vault, op, accounts, pre>>

\* account.rs 70-71
SwitchSave(p) ==
    /\ pc[p] = "switch_save"
    /\ \E ok \in BOOLEAN :
        /\ Log(p, Call("save_accounts", 0, ok))
        /\ IF ok
           THEN WriteDoc(p) /\ Finish(p, "Ok")
           ELSE Finish(p, "Io") /\ UNCHANGED doc
    /\ UNCHANGED <<vault, op, accounts, pre>>

\* ----------------------------------------------------------------- remove
\* mutant of RemoveBegin: the result of remove_account is not looked at
RemoveBeginUnchecked(p, id) ==
    /\ Loaded(p, [name |-> "remove", id |-> id])
    /\ accounts' = [accounts EXCEPT ![p] = remove_account(load_accounts, id).accounts]
    /\ Goto(p, "remove_delete")
    /\ UNCHANGED <<doc, vault>>

\* account.rs 117-121
RemoveBegin(p, id) ==
    /\ Loaded(p, [name |-> "remove", id |-> id])
    /\ accounts' = [accounts EXCEPT ![p] = remove_account(load_accounts, id).accounts]
    /\ IF remove_account(load_accounts, id).removed = <<>>
       THEN Finish(p, "AccountNotFound")
       ELSE Goto(p, "remove_delete")
    /\ UNCHANGED <<doc, vault>>

RemoveLoadFails(p, id, err) == LoadFails(p, [name |-> "remove", id |-> id], err)

\* account.rs 123-124: `let _ = delete_token(id)`, before the save
RemoveDelete(p) ==
    /\ pc[p] = "remove_delete"
    /\ \E ok \in BOOLEAN :
        /\ Log(p, Call("delete_token", op[p].id,
                       delete_token_ok(vault, op[p].id, ok)))
        /\ vault' = delete_token(vault, op[p].id, ok)
    /\ Goto(p, "remove_save")
    /\ UNCHANGED <<doc, op, accounts, pre>>

\* account.rs 126-127
RemoveSave(p) ==
    /\ pc[p] = "remove_save"
    /\ \E ok \in BOOLEAN :
        /\ Log(p, Call("save_accounts", 0, ok))
        /\ IF ok
           THEN WriteDoc(p) /\ Finish(p, "Ok")
           ELSE Finish(p, "Io") /\ UNCHANGED doc
    /\ UNCHANGED <<vault, op, accounts, pre>>

\* ------------------------------------------------------------------- show
\* account.rs 110-113
ShowBegin(p) ==
    /\ Loaded(p, [name |-> "show"])
    /\ accounts' = [accounts EXCEPT ![p] = load_accounts]
    /\ IF active_account(load_accounts) = <<>>
       THEN Finish(p, "NoActiveAccount")
       ELSE FinishWith(p, active_account(load_accounts)[1])
    /\ UNCHANGED <<doc, vault>>

ShowLoadFails(p, err) == LoadFails(p, [name |-> "show"], err)

\* -------------------------------------------------- get_active_with_token
\* account.rs 132: `let account = show(storage)?`
GetActiveBegin(p) ==
    /\ Loaded(p, [name |-> "get_active_with_token"])
    /\ accounts' = [accounts EXCEPT ![p] = load_accounts]
    /\ IF active_account(load_accounts) = <<>>
       THEN Finish(p, "NoActiveAccount")
       ELSE Goto(p, "get_token")
    /\ UNCHANGED <<doc, vault>>

GetActiveLoadFails(p, err) ==
    LoadFails(p, [name |-> "get_active_with_token"], err)

\* mutant of GetActiveToken: a failed retrieval yields an empty token
GetActiveTokenSwallowing(p) ==
    /\ pc[p] = "get_token"
    /\ \E ok \in BOOLEAN :
        LET account == active_account(accounts[p])[1]
            token == get_token(vault, env, account.id, ok)
        IN  /\ Log(p, GetTokenCall(env, account.id, token))
            /\ FinishWith(p, [account |-> account,
                              token |-> IF token # <<>> THEN token[1] ELSE ""])
    /\ UNCHANGED <<doc, vault, op, accounts, pre>>

\* account.rs 133-134: `let token = get_token(&account.id)?; Ok((account, token))`
GetActiveToken(p) ==
    /\ pc[p] = "get_token"
    /\ \E ok \in BOOLEAN :
        LET account == active_account(accounts[p])[1]
            token == get_token(vault, env, account.id, ok)
        IN  /\ Log(p, GetTokenCall(env, account.id, token))
            /\ IF token # <<>>
               THEN FinishWith(p, [account |-> account, token |-> token[1]])
               ELSE Finish(p, "Keychain")
    /\ UNCHANGED <<doc, vault, op, accounts, pre>>

\* ------------------------------------------------------------------- list
\* mutant of ListBegin: the registry read is written back
ListBeginSaving(p) ==
    /\ Loaded(p, [name |-> "list"])
    /\ accounts' = [accounts EXCEPT ![p] = load_accounts]
    /\ FinishWith(p, load_accounts)
    /\ doc' = <<AccountsToJson(load_accounts)>>
    /\ UNCHANGED vault

\* account.rs 57-59: `storage.load_accounts()`
ListBegin(p) ==
    /\ Loaded(p, [name |-> "list"])
    /\ accounts' = [accounts EXCEPT ![p] = load_accounts]
    /\ FinishWith(p, load_accounts)
    /\ UNCHANGED <<doc, vault>>

ListLoadFails(p, err) == LoadFails(p, [name |-> "list"], err)

\* ---------------------------------------------------------------- storage
\* models.rs 121-130: StateFile, both fields `Option<String>`
StateFileDefault == [last_org |-> <<>>, last_repo |-> <<>>]

\* serde: a None field is not written ...
StateToJson(st) ==
    LET keys == (IF st.last_org = <<>> THEN {} ELSE {"last_org"})
                \cup (IF st.last_repo = <<>> THEN {} ELSE {"last_repo"})
    IN  [k \in keys |-> IF k = "last_org" THEN st.last_org[1]
                        ELSE st.last_repo[1]]

\* ... and a missing key reads as None
StateFromJson(j) ==
    [last_org |-> IF "last_org" \in DOMAIN j THEN <<j["last_org"]>> ELSE <<>>,
     last_repo |-> IF "last_repo" \in DOMAIN j THEN <<j["last_repo"]>> ELSE <<>>]

\* FilesystemStorage::load_state on a readable document
load_state == IF state_doc = <<>> THEN StateFileDefault
              ELSE StateFromJson(state_doc[1])

\* a direct call of a Storage method returns to its caller
Called1(p, o, name, ok) ==
    /\ pc[p] = "idle"
    /\ op' = [op EXCEPT ![p] = o]
    /\ pre' = [pre EXCEPT ![p] = <<Snapshot>>]
    /\ calls' = [calls EXCEPT ![p] = <<Call(name, 0, ok)>>]
    /\ UNCHANGED <<vault, accounts>>

\* mutant of LoadState: a missing state document is created on the way
LoadStateCreating(p) ==
    /\ Called1(p, [name |-> "load_state"], "load_state", TRUE)
    /\ FinishWith(p, load_state)
    /\ state_doc' = <<StateToJson(load_state)>>
    /\ UNCHANGED doc

\* storage.rs 67-75
LoadState(p) ==
    /\ Called1(p, [name |-> "load_state"], "load_state", TRUE)
    /\ FinishWith(p, load_state)
    /\ UNCHANGED <<doc, state_doc>>

\* storage.rs 72-73: the document is there and cannot be read or parsed
LoadStateFails(p, err) ==
    /\ state_doc # <<>>
    /\ Called1(p, [name |-> "load_state"], "load_state", FALSE)
    /\ Finish(p, err)
    /\ UNCHANGED <<doc, state_doc>>

\* storage.rs 77-82
SaveState(p, st) ==
    /\ \E ok \in BOOLEAN :
        /\ Called1(p, [name |-> "save_state", state |-> st], "save_state", ok)
        /\ state_doc' = IF ok THEN <<StateToJson(st)>> ELSE state_doc
        /\ Finish(p, IF ok THEN "Ok" ELSE "Io")
    /\ UNCHANGED doc

\* storage.rs 60-65
SaveAccounts(p, f) ==
    /\ \E ok \in BOOLEAN :
        /\ Called1(p, [name |-> "save_accounts", accounts |-> f],
                   "save_accounts", ok)
        /\ doc' = IF ok THEN <<AccountsToJson(f)>> ELSE doc
        /\ Finish(p, IF ok THEN "Ok" ELSE "Io")
    /\ UNCHANGED state_doc

\* ------------------------------------------------------------------- main
\* error.rs 8-39: the text of an error, without its detail
Display(err) ==
    CASE err = "Io" -> "IO error"
      [] err = "Config" -> "Configuration error"
      [] err = "AccountNotFound" -> "Account not found"
      [] err = "NoActiveAccount" -> "No active account configured"
      [] err = "Keychain" -> "Keychain error"
      [] err = "GitHubApi" -> "GitHub API error"
      [] err = "Git" -> "Git error"
      [] err = "Json" -> "JSON error"
      [] err = "Network" -> "Network error"
      [] err = "TtyRequired" -> "TTY required for interactive selection"
      [] err = "InvalidInput" -> "Invalid input"

\* mutant: the error is reported and the process still ends with 0
main_reporting_only(res) ==
    IF res = "Ok" THEN [code |-> 0, stderr |-> <<>>]
    ELSE [code |-> 0, stderr |-> <<"Error: ", Display(res)>>]

\* main.rs 158-163: `if let Err(e) = result { eprintln!("Error: {e}"); exit(1) }`
main(res) ==
    IF res = "Ok" THEN [code |-> 0, stderr |-> <<>>]
    ELSE [code |-> 1, stderr |-> <<"Error: ", Display(res)>>]

\* main.rs 223-226: after `account::show(storage)?` the secret is fetched
\* for display, `unwrap_or_else(|_| "(not found)")` on its failure
MainShowToken(p) ==
    /\ pc[p] = "done" /\ op[p].name = "show" /\ result[p] = "Ok"
    /\ \E ok \in BOOLEAN :
          Log(p, GetTokenCall(env, value[p][1].id,
                              get_token(vault, env, value[p][1].id, ok)))
    /\ pc' = [pc EXCEPT ![p] = "printed"]
    /\ UNCHANGED <<doc, vault, op, accounts, result, pre, value, env, exit>>

\* the command has returned to main, and the process ends
MainExit(p) ==
    /\ \/ pc[p] = "printed"
       \/ pc[p] = "done" /\ ~(op[p].name = "show" /\ result[p] = "Ok")
    /\ exit' = [exit EXCEPT ![p] = <<main(result[p])>>]
    /\ pc' = [pc EXCEPT ![p] = "exited"]
    /\ UNCHANGED <<doc, vault, op, accounts, calls, result, pre, value, env>>

\* ----------------------------------------------------------------- return
\* the process is gone, and its locals with it
Return(p) ==
    /\ pc[p] = "exited"
    /\ exit' = [exit EXCEPT ![p] = <<>>]
    /\ pc' = [pc EXCEPT ![p] = "idle"]
    /\ op' = [op EXCEPT ![p] = NoOp]
    /\ accounts' = [accounts EXCEPT ![p] = AccountsFileDefault]
    /\ calls' = [calls EXCEPT ![p] = <<>>]
    /\ result' = [result EXCEPT ![p] = "none"]
    /\ pre' = [pre EXCEPT ![p] = <<>>]
    /\ value' = [value EXCEPT ![p] = <<>>]
    /\ UNCHANGED <<doc, vault, env>>

\* the error of a load that fails (the file cannot be read)
LoadErrors == {"Io"}

\* a command starts (its load included)
Begin(p) ==
    \/ \E id \in Ids, a \in AddArgs, token \in Tokens :
          AddBegin(p, id, a.kind, a.profile, token)
    \/ \E id \in Ids, a \in AddArgs, token \in Tokens, err \in LoadErrors :
          AddLoadFails(p, id, a.kind, a.profile, token, err)
    \/ \E id \in Ids : SwitchBegin(p, id)
    \/ \E id \in Ids, err \in LoadErrors : SwitchLoadFails(p, id, err)
    \/ \E id \in Ids : RemoveBegin(p, id)
    \/ \E id \in Ids, err \in LoadErrors : RemoveLoadFails(p, id, err)
    \/ ShowBegin(p)
    \/ \E err \in LoadErrors : ShowLoadFails(p, err)
    \/ GetActiveBegin(p)
    \/ \E err \in LoadErrors : GetActiveLoadFails(p, err)
    \/ ListBegin(p)
    \/ \E err \in LoadErrors : ListLoadFails(p, err)

\* only the account commands run: the rest stays as it is
AccountsOnly == UNCHANGED <<repo_vars, twin_vars, history>>

\* a started command goes on to its next call
Continue(p) ==
    \/ AddStore(p) /\ AccountsOnly
    \/ AddSave(p) /\ AccountsOnly
    \/ AddRollback(p) /\ AccountsOnly
    \/ SwitchSave(p) /\ AccountsOnly
    \/ RemoveDelete(p) /\ AccountsOnly
    \/ RemoveSave(p) /\ AccountsOnly
    \/ GetActiveToken(p) /\ AccountsOnly
    \/ MainShowToken(p) /\ AccountsOnly
    \/ MainExit(p) /\ AccountsOnly
    \/ Return(p) /\ AccountsOnly

\* sequential use: a command starts only when no other is running
Next ==
    \E p \in SeqProcs : (AllIdle /\ Begin(p) /\ AccountsOnly) \/ Continue(p)

Spec == Init /\ [][Next]_vars

\* ------------------------------------------- reading any accounts document
\* The document is a human-editable file: show and get_active_with_token
\* are run on documents the commands did not write themselves, with any
\* keychain content and any setting of the two environment variables.
Option(S) == {<<>>} \cup {<<x>> : x \in S}

AnyPartition(kind) ==
    Option({Account(id, kind, profile) : id \in Ids, profile \in Profiles})

AnyRegistry ==
    [personal : AnyPartition("personal"), work : AnyPartition("work"),
     active_account_id : Option(Ids)]

AnyEnv ==
    [GH_TOKEN : Option({"gh-token"}) \cup {NotUnicode},
     GITHUB_TOKEN : Option({"github-token"}) \cup {NotUnicode}]

InitRead ==
    /\ doc \in {<<>>} \cup {<<AccountsToJson(f)>> : f \in AnyRegistry}
    /\ vault \in [Ids -> Option(Tokens)]
    /\ env \in AnyEnv
    /\ state_doc = <<>>
    /\ doc2 = doc
    /\ NoneStarted

ReadBegin(p) ==
    \/ ShowBegin(p)
    \/ \E err \in LoadErrors : ShowLoadFails(p, err)
    \/ GetActiveBegin(p)
    \/ \E err \in LoadErrors : GetActiveLoadFails(p, err)
    \/ ListBegin(p)
    \/ \E err \in LoadErrors : ListLoadFails(p, err)

ReadContinue(p) ==
    \/ GetActiveToken(p) /\ AccountsOnly
    \/ MainShowToken(p) /\ AccountsOnly
    \/ MainExit(p) /\ AccountsOnly
    \/ Return(p) /\ AccountsOnly

NextRead ==
    \E p \in SeqProcs :
        (AllIdle /\ ReadBegin(p) /\ AccountsOnly) \/ ReadContinue(p)

SpecRead == InitRead /\ [][NextRead]_vars

\* ------------------------------------------------ two invocations at once
\* Two processes run add, switch or remove with nothing between them but
\* the document and the keychain: each is at its own load, keychain call or
\* save, and the other may take any number of steps in between.
ConcProcs == {1, 2}

WriterBegin(p) ==
    \/ \E id \in Ids, a \in AddArgs, token \in Tokens :
          AddBegin(p, id, a.kind, a.profile, token)
    \/ \E id \in Ids : SwitchBegin(p, id)
    \/ \E id \in Ids : RemoveBegin(p, id)

\* each of the two runs one command, to its return
ConcStep(p) ==
    \/ AddStore(p) /\ AccountsOnly
    \/ AddSave(p) /\ AccountsOnly
    \/ AddRollback(p) /\ AccountsOnly
    \/ SwitchSave(p) /\ AccountsOnly
    \/ RemoveDelete(p) /\ AccountsOnly
    \/ RemoveSave(p) /\ AccountsOnly

NextConc ==
    \E p \in ConcProcs : (WriterBegin(p) /\ AccountsOnly) \/ ConcStep(p)

SpecConc == Init /\ [][NextConc]_vars

\* ------------------------------------------------- racing on a registry
\* The invocations start on a registry that sequential use has left: its
\* ids differ, its active pointer, when set, names one of its accounts,
\* and each of its accounts has a secret.
WellFormed(f) ==
    /\ \A i, j \in 1..Len(all_accounts(f)) :
          i # j => all_accounts(f)[i].id # all_accounts(f)[j].id
    /\ f.active_account_id # <<>> =>
          \E i \in 1..Len(all_accounts(f)) :
              all_accounts(f)[i].id = f.active_account_id[1]

InitRace ==
    /\ \E f \in {g \in AnyRegistry : WellFormed(g)} :
        /\ doc = <<AccountsToJson(f)>>
        /\ vault = [i \in Ids |->
                      IF \E k \in 1..Len(all_accounts(f)) :
                             all_accounts(f)[k].id = i
                      THEN <<"tok-aaa">> ELSE <<>>]
    /\ env = EnvUnset
    /\ state_doc = <<>>
    /\ doc2 = doc
    /\ NoneStarted

\* two processes run one add, switch or remove each, interleaved at every
\* call; what a save writes is made of the document its command loaded,
\* and every such document is one the race can start on
NextRace ==
    \E p \in ConcProcs : (WriterBegin(p) /\ AccountsOnly) \/ ConcStep(p)

SpecRace == InitRace /\ [][NextRace]_vars

\* --------------------------------------- sequential use without failures
\* the call p has just made succeeded
Succeeds(p) == calls'[p][Len(calls'[p])].ok

\* what the step of p adds to the history: the secret of an add that has
\* returned success, the id of a remove that has
Recorded(p) ==
    history' =
        IF pc[p] # "done" /\ pc'[p] = "done" /\ result'[p] = "Ok"
        THEN IF op'[p].name = "add"
             THEN [history EXCEPT ![op'[p].id].secret = <<op'[p].token>>]
             ELSE IF op'[p].name = "remove"
             THEN [history EXCEPT ![op'[p].id].removed =
                                     history[op'[p].id].secret]
             ELSE history
        ELSE history

SeqOnly == UNCHANGED <<repo_vars, twin_vars>>

\* one invocation at a time, and every load, store, save and delete
\* succeeds
NextSeq ==
    \E p \in SeqProcs :
        \/ AllIdle /\ WriterBegin(p) /\ Recorded(p) /\ SeqOnly
        \/ AllIdle /\ ShowBegin(p) /\ Recorded(p) /\ SeqOnly
        \/ AddStore(p) /\ Succeeds(p) /\ Recorded(p) /\ SeqOnly
        \/ AddSave(p) /\ Succeeds(p) /\ Recorded(p) /\ SeqOnly
        \/ SwitchSave(p) /\ Succeeds(p) /\ Recorded(p) /\ SeqOnly
        \/ RemoveDelete(p) /\ Succeeds(p) /\ Recorded(p) /\ SeqOnly
        \/ RemoveSave(p) /\ Succeeds(p) /\ Recorded(p) /\ SeqOnly
        \/ MainShowToken(p) /\ Succeeds(p) /\ Recorded(p) /\ SeqOnly
        \/ MainExit(p) /\ Recorded(p) /\ SeqOnly
        \/ Return(p) /\ Recorded(p) /\ SeqOnly

SpecSeq == Init /\ [][NextSeq]_vars

\* ------------------------------------------------ two runs, two secrets
\* The twin run goes through the same add, switch and remove commands as
\* the first, each call in it ending as it ends in the first, and differs
\* in one thing: every add is given another secret. Its document is doc2
\* and the registry its invocation holds is accounts2; a delete_token of
\* the twin run finds an entry exactly when the one of the first run does.
other_secret(t) == CHOOSE u \in Tokens : u # t

twin_op(o) ==
    IF o.name = "add" THEN [o EXCEPT !.token = other_secret(@)] ELSE o

\* the registry the twin invocation holds after its load: account.rs 20,
\* 63-69 and 117-118 on the twin document
loaded2(o) ==
    LET f == RegistryOf(doc2)
    IN  CASE o.name = "switch" ->
               IF find_account(f, o.id) = <<>> THEN f
               ELSE [f EXCEPT !.active_account_id = <<o.id>>]
          [] o.name = "remove" -> remove_account(f, o.id).accounts
          [] OTHER -> f

TwinBegin(p) ==
    /\ accounts2' = [accounts2 EXCEPT ![p] = loaded2(twin_op(op'[p]))]
    /\ UNCHANGED doc2

\* account.rs 36-45 in the twin run, when store_token succeeded
TwinAddStore(p) ==
    /\ accounts2' = [accounts2 EXCEPT ![p] =
          IF pc'[p] = "add_save"
          THEN make_active_if_none(
                   add_account(@, new_account(twin_op(op[p]))), op[p].id)
          ELSE @]
    /\ UNCHANGED doc2

\* save_accounts(&accounts) in the twin run, when it succeeded
TwinSave(p) ==
    /\ doc2' = IF calls'[p][Len(calls'[p])].ok
               THEN <<AccountsToJson(accounts2[p])>>
               ELSE doc2
    /\ UNCHANGED accounts2

TwinReturn(p) ==
    /\ accounts2' = [accounts2 EXCEPT ![p] = AccountsFileDefault]
    /\ UNCHANGED doc2

NextTwin ==
    \E p \in SeqProcs :
        \/ AllIdle /\ WriterBegin(p) /\ TwinBegin(p) /\ UNCHANGED <<repo_vars, history>>
        \/ AddStore(p) /\ TwinAddStore(p) /\ UNCHANGED <<repo_vars, history>>
        \/ AddSave(p) /\ TwinSave(p) /\ UNCHANGED <<repo_vars, history>>
        \/ AddRollback(p) /\ AccountsOnly
        \/ SwitchSave(p) /\ TwinSave(p) /\ UNCHANGED <<repo_vars, history>>
        \/ RemoveDelete(p) /\ AccountsOnly
        \/ RemoveSave(p) /\ TwinSave(p) /\ UNCHANGED <<repo_vars, history>>
        \/ MainExit(p) /\ AccountsOnly
        \/ Return(p) /\ TwinReturn(p) /\ UNCHANGED <<repo_vars, history>>

SpecTwin == Init /\ [][NextTwin]_vars

\* ------------------------------------------------ repositories and pulls
\* a text is the sequence of its characters
RECURSIVE split(_)
\* str::split('/'): the parts between the separators, one more than there
\* are separators
split(s) ==
    IF \A i \in 1..Len(s) : s[i] # "/" THEN <<s>>
    ELSE LET i == CHOOSE k \in 1..Len(s) :
                      s[k] = "/" /\ \A j \in 1..(k - 1) : s[j] # "/"
         IN  <<SubSeq(s, 1, i - 1)>> \o split(SubSeq(s, i + 1, Len(s)))

\* mutant: splitn(2, '/'), everything after the first separator is the repo
parse_repo_spec_first_slash(spec) ==
    LET parts == split(spec)
    IN  IF Len(parts) < 2 THEN [result |-> "InvalidInput", value |-> <<>>]
        ELSE [result |-> "Ok",
              value |-> <<[owner |-> parts[1],
                           repo |-> SubSeq(spec, Len(parts[1]) + 2, Len(spec))]>>]

\* repo.rs 99-108
parse_repo_spec(spec) ==
    LET parts == split(spec)
    IN  IF Len(parts) # 2 THEN [result |-> "InvalidInput", value |-> <<>>]
        ELSE [result |-> "Ok",
              value |-> <<[owner |-> parts[1], repo |-> parts[2]]>>]

\* pr.rs 42-51
pr_parse_repo_spec(spec) ==
    LET parts == split(spec)
    IN  IF Len(parts) # 2 THEN [result |-> "InvalidInput", value |-> <<>>]
        ELSE [result |-> "Ok",
              value |-> <<[owner |-> parts[1], repo |-> parts[2]]>>]

\* the owner/repo arguments the commands are run with: one well formed, one
\* without a separator, one with two
RepoSpecs ==
    { <<"o", "/", "r">>, <<"o", "r">>, <<"o", "/", "r", "/", "x">> }

\* the longest listing the API answers with
MaxRepos == 3

\* a listing of n repositories, named 1..n in the order of the answer
Listing(n) == [i \in 1..n |-> i]

\* github.rs 11
DEFAULT_LIMIT == 30

\* the --limit values the commands are run with: 0, the defaults of the
\* command line (main.rs 92, 107, 120) and a larger one
Limits == {0, 10, 30, 100}

\* github.rs 56: the per_page of the url of list_user_repos
list_user_repos_per_page(limit) == IF limit = 0 THEN DEFAULT_LIMIT ELSE limit

\* github.rs 69: the per_page of the url of list_org_repos
list_org_repos_per_page(limit) == IF limit = 0 THEN DEFAULT_LIMIT ELSE limit

\* mutant: the page size is put in the url as it was given
list_pull_requests_per_page_as_given(limit) == limit

\* github.rs 98: the per_page of the url of list_pull_requests
list_pull_requests_per_page(limit) == IF limit = 0 THEN DEFAULT_LIMIT ELSE limit

RepoOps ==
    [name : {"repo_list"}, org : Option({"org"}), limit : Limits]
    \cup [name : {"clone"}, spec : RepoSpecs]
    \cup [name : {"clone_org"}, org : {"org"}, limit : Limits]
    \cup [name : {"pr_list"}, spec : Option(RepoSpecs), limit : Limits]

LogAll(p, cs) == calls' = [calls EXCEPT ![p] = @ \o cs]

\* mutant of RepoBegin: the repository argument is parsed before the
\* active account is looked up
RepoBeginParsingFirst(p, o) ==
    /\ Loaded(p, o)
    /\ accounts' = [accounts EXCEPT ![p] = load_accounts]
    /\ IF "spec" \in DOMAIN o /\ o.spec # <<>>
          /\ parse_repo_spec(IF o.name = "clone" THEN o.spec ELSE o.spec[1])
                .result # "Ok"
       THEN Finish(p, "InvalidInput")
       ELSE IF active_account(load_accounts) = <<>>
       THEN Finish(p, "NoActiveAccount")
       ELSE Goto(p, "repo_token")
    /\ UNCHANGED <<doc, vault, repos, cloned>>

\* repo.rs 17, 30, 60 and pr.rs 16: `account::get_active_with_token(storage)?`
\* is the first statement; here its load and `show`
RepoBegin(p, o) ==
    /\ Loaded(p, o)
    /\ accounts' = [accounts EXCEPT ![p] = load_accounts]
    /\ IF active_account(load_accounts) = <<>>
       THEN Finish(p, "NoActiveAccount")
       ELSE Goto(p, "repo_token")
    /\ UNCHANGED <<doc, vault, repos, cloned>>

RepoLoadFails(p, o, err) == LoadFails(p, o, err) /\ UNCHANGED <<repos, cloned>>

\* the account every step after the first works with
the_account(p) == active_account(accounts[p])[1]

\* the get_token of get_active_with_token, then what follows it without a
\* call: GitHubClient::new (repo.rs 18, 61, pr.rs 17), which can fail to
\* build the client, or parse_repo_spec (repo.rs 32)
RepoToken(p) ==
    /\ pc[p] = "repo_token"
    /\ \E ok \in BOOLEAN, built \in BOOLEAN :
        LET token == get_token(vault, env, the_account(p).id, ok)
        IN  /\ Log(p, GetTokenCall(env, the_account(p).id, token))
            /\ IF token = <<>> THEN Finish(p, "Keychain")
               ELSE IF op[p].name = "clone"
               THEN IF parse_repo_spec(op[p].spec).result # "Ok"
                    THEN Finish(p, "InvalidInput")
                    ELSE Goto(p, "clone_run")
               ELSE IF ~built THEN Finish(p, "Network")
               ELSE Goto(p, IF op[p].name = "pr_list" THEN "pr_repo"
                           ELSE "request")
    /\ UNCHANGED <<doc, vault, op, accounts, pre, repos, cloned>>

\* how `git remote get-url origin` and the parse of its answer can end
RemoteOutcomes == {"spawn_error", "failed", "unrecognized", "malformed", "found"}

\* pr.rs 19-22: the repository is the argument, or GITHUB_REPOSITORY, or
\* the origin remote of the working directory (pr.rs 53-87)
PrRepo(p) ==
    /\ pc[p] = "pr_repo"
    /\ IF op[p].spec # <<>>
       THEN /\ IF pr_parse_repo_spec(op[p].spec[1]).result = "Ok"
               THEN Goto(p, "request")
               ELSE Finish(p, "InvalidInput")
            /\ UNCHANGED calls
       ELSE \E github_repository \in Option(RepoSpecs) :
              IF github_repository # <<>>
              THEN /\ IF pr_parse_repo_spec(github_repository[1]).result = "Ok"
                      THEN Goto(p, "request")
                      ELSE Finish(p, "InvalidInput")
                   /\ UNCHANGED calls
              ELSE \E out \in RemoteOutcomes :
                     /\ Log(p, Call("git", "remote", out # "spawn_error"))
                     /\ IF out = "found" THEN Goto(p, "request")
                        ELSE IF out = "malformed" THEN Finish(p, "InvalidInput")
                        ELSE Finish(p, "Git")
    /\ UNCHANGED <<doc, vault, op, accounts, pre, repos, cloned>>

\* repo.rs 20-23: the listing asked for
endpoint(o, account) ==
    CASE o.name = "pr_list" -> <<"pulls">>
      [] o.name = "clone_org" -> <<"orgs", o.org>>
      [] o.name = "repo_list" ->
            IF o.org # <<>> THEN <<"orgs", o.org[1]>>
            ELSE IF account.default_org # <<>>
            THEN <<"orgs", account.default_org[1]>>
            ELSE <<"users", account.username>>

\* the page size in the url of the listing asked for
per_page(o, account) ==
    CASE endpoint(o, account)[1] = "pulls" -> list_pull_requests_per_page(o.limit)
      [] endpoint(o, account)[1] = "orgs" -> list_org_repos_per_page(o.limit)
      [] endpoint(o, account)[1] = "users" -> list_user_repos_per_page(o.limit)

\* github.rs 30-47 and the `.json()` after it: the request fails (Network),
\* is answered with an error status or an unreadable body (GitHubApi), or
\* yields a listing
Request(p) ==
    /\ pc[p] = "request"
    /\ \E out \in {"Network", "GitHubApi", "Ok"}, n \in 0..MaxRepos :
        /\ Log(p, [call |-> "http", id |-> endpoint(op[p], the_account(p)),
                   per_page |-> per_page(op[p], the_account(p)),
                   ok |-> out = "Ok",
                   listing |-> IF out = "Ok" THEN Listing(n) ELSE <<>>])
        /\ IF out # "Ok"
           THEN Finish(p, out) /\ UNCHANGED <<repos, cloned>>
           ELSE IF op[p].name = "clone_org"
           THEN /\ repos' = [repos EXCEPT ![p] = Listing(n)]
                /\ cloned' = [cloned EXCEPT ![p] = <<>>]
                /\ Goto(p, "clone_loop")
           ELSE FinishWith(p, Listing(n)) /\ UNCHANGED <<repos, cloned>>
    /\ UNCHANGED <<doc, vault, op, accounts, pre>>

\* how the clone of one repository can go: its directory is there already,
\* git cannot be started, git exits with a failure, git succeeds
CloneOutcomes == {"exists", "spawn_error", "failed", "success"}

\* the calls of one clone: target_dir.exists(), Command::status(), and the
\* exit status of a git that ran
CloneCalls(repo, out) ==
    IF out = "exists" THEN <<Call("exists", repo, TRUE)>>
    ELSE IF out = "spawn_error"
    THEN <<Call("exists", repo, FALSE), Call("git", repo, FALSE)>>
    ELSE <<Call("exists", repo, FALSE), Call("git", repo, TRUE),
           Call("git_exit", repo, out = "success")>>

\* repo.rs 40-55
CloneRun(p) ==
    /\ pc[p] = "clone_run"
    /\ \E out \in CloneOutcomes :
        /\ LogAll(p, CloneCalls(parse_repo_spec(op[p].spec).value[1].repo, out))
        /\ Finish(p, IF out = "success" THEN "Ok" ELSE "Git")
    /\ UNCHANGED <<doc, vault, op, accounts, pre, repos, cloned>>

\* repo.rs 66-94: one turn of `for repo in repos`
CloneOrgNext(p) ==
    /\ pc[p] = "clone_loop" /\ repos[p] # <<>>
    /\ \E out \in CloneOutcomes :
        /\ LogAll(p, CloneCalls(Head(repos[p]), out))
        /\ IF out = "spawn_error"
           THEN Finish(p, "Git") /\ UNCHANGED <<repos, cloned>>
           ELSE /\ repos' = [repos EXCEPT ![p] = Tail(@)]
                /\ cloned' = [cloned EXCEPT ![p] =
                      IF out = "success" THEN Append(@, Head(repos[p])) ELSE @]
                /\ Goto(p, "clone_loop")
    /\ UNCHANGED <<doc, vault, op, accounts, pre>>

\* repo.rs 96: `Ok(cloned)`
CloneOrgDone(p) ==
    /\ pc[p] = "clone_loop" /\ repos[p] = <<>>
    /\ FinishWith(p, cloned[p])
    /\ UNCHANGED <<doc, vault, op, accounts, calls, pre, repos, cloned>>

\* the process is gone, the locals of clone_org too
RepoReturn(p) ==
    /\ Return(p)
    /\ repos' = [repos EXCEPT ![p] = <<>>]
    /\ cloned' = [cloned EXCEPT ![p] = <<>>]

\* The remote commands are run on any accounts document, with a keychain
\* that holds a secret for every id or for none, and with or without the
\* GH_TOKEN override.
InitRepo ==
    /\ doc \in {<<>>} \cup {<<AccountsToJson(f)>> : f \in AnyRegistry}
    /\ vault \in {[i \in Ids |-> <<>>], [i \in Ids |-> <<"tok-aaa">>]}
    /\ env \in {EnvUnset, [EnvUnset EXCEPT !.GH_TOKEN = <<"gh-token">>]}
    /\ state_doc = <<>>
    /\ doc2 = doc
    /\ NoneStarted

RepoOnly == UNCHANGED <<state_doc, twin_vars, history>>

NextRepo ==
    \E p \in SeqProcs :
        \/ \E o \in RepoOps : AllIdle /\ RepoBegin(p, o) /\ RepoOnly
        \/ \E o \in RepoOps, err \in LoadErrors :
              AllIdle /\ RepoLoadFails(p, o, err) /\ RepoOnly
        \/ RepoToken(p) /\ RepoOnly
        \/ PrRepo(p) /\ RepoOnly
        \/ Request(p) /\ RepoOnly
        \/ CloneRun(p) /\ RepoOnly
        \/ CloneOrgNext(p) /\ RepoOnly
        \/ CloneOrgDone(p) /\ RepoOnly
        \/ MainExit(p) /\ AccountsOnly
        \/ RepoReturn(p) /\ RepoOnly

SpecRepo == InitRepo /\ [][NextRepo]_vars

\* ------------------------------------------------------ interactive switch
\* The ids as they are typed and printed, a sequence of characters each.
\* `add` takes any text as an id (main.rs 43-44, account.rs 20-31): the
\* first id is a plain word, the second has a parenthesis in it, the others
\* are a letter and a number.
IdText(id) ==
    CASE id = 1 -> <<"w">>
      [] id = 2 -> <<"w", " ", "(", "x">>
      [] OTHER  -> <<"i", ToString(id)>>

\* the id of no account
NoId == 0

\* the id a text is the text of
TextId(t) ==
    IF \E id \in Ids : IdText(id) = t
    THEN CHOOSE id \in Ids : IdText(id) = t
    ELSE NoId

\* account.rs 87-94: format!("{} ({}){}", a.id, a.username, marker); the
\* username is one character here
label(f, a) ==
    IdText(a.id) \o <<" ", "(", a.username, ")">>
        \o (IF f.active_account_id = <<a.id>>
            THEN <<" ", "(", "active", ")">> ELSE <<>>)

\* account.rs 101: selection.split('(').next()
before_paren(s) ==
    IF \E i \in 1..Len(s) : s[i] = "("
    THEN SubSeq(s, 1, (CHOOSE i \in 1..Len(s) :
                          s[i] = "(" /\ \A j \in 1..(i - 1) : s[j] # "(") - 1)
    ELSE s

RECURSIVE trim(_)
\* account.rs 101: str::trim
trim(s) ==
    IF s = <<>> THEN s
    ELSE IF Head(s) = " " THEN trim(Tail(s))
    ELSE IF s[Len(s)] = " " THEN trim(SubSeq(s, 1, Len(s) - 1))
    ELSE s

\* account.rs 76-78: without a terminal nothing is loaded
SwitchInteractiveNoTty(p) ==
    /\ pc[p] = "idle"
    /\ op' = [op EXCEPT ![p] = [name |-> "switch_interactive", tty |-> FALSE]]
    /\ pre' = [pre EXCEPT ![p] = <<Snapshot>>]
    /\ Finish(p, "TtyRequired")
    /\ UNCHANGED <<doc, vault, accounts, calls>>

\* account.rs 80-85
SwitchInteractiveBegin(p) ==
    /\ Loaded(p, [name |-> "switch_interactive", tty |-> TRUE])
    /\ accounts' = [accounts EXCEPT ![p] = load_accounts]
    /\ IF all_accounts(load_accounts) = <<>>
       THEN Finish(p, "Config")
       ELSE Goto(p, "prompt")
    /\ UNCHANGED <<doc, vault>>

SwitchInteractiveLoadFails(p, err) ==
    LoadFails(p, [name |-> "switch_interactive", tty |-> TRUE], err)

\* account.rs 96-104: the prompt is cancelled, or the user picks the label
\* of the k-th account and the id is cut out of it
Prompt(p) ==
    /\ pc[p] = "prompt"
    /\ \E k \in 0..Len(all_accounts(accounts[p])) :
        IF k = 0
        THEN /\ Log(p, [call |-> "prompt", id |-> NoId, ok |-> FALSE,
                        selected_id |-> <<>>])
             /\ Finish(p, "Config")
        ELSE LET a == all_accounts(accounts[p])[k]
                 selected_id == trim(before_paren(label(accounts[p], a)))
             IN  /\ Log(p, [call |-> "prompt", id |-> a.id, ok |-> TRUE,
                            selected_id |-> selected_id])
                 /\ IF selected_id = <<>>
                    THEN Finish(p, "Config")
                    ELSE Goto(p, "switch")
    /\ UNCHANGED <<doc, vault, op, accounts, pre>>

\* the text the prompt step cut out of the selection
selected(p) == calls[p][Len(calls[p])].selected_id

\* account.rs 105-106 with 62-71: switch(storage, selected_id) loads the
\* registry again; Ok(selected_id.to_string()) is the value once it saved
SwitchSelected(p) ==
    /\ pc[p] = "switch"
    /\ \E ok \in BOOLEAN :
        /\ ok \/ doc # <<>>
        /\ Log(p, Call("load_accounts", 0, ok))
        /\ IF ~ok
           THEN Finish(p, "Io") /\ UNCHANGED accounts
           ELSE IF find_account(load_accounts, TextId(selected(p))) = <<>>
           THEN /\ accounts' = [accounts EXCEPT ![p] = load_accounts]
                /\ Finish(p, "AccountNotFound")
           ELSE /\ accounts' = [accounts EXCEPT ![p] =
                      [load_accounts EXCEPT
                          !.active_account_id = <<TextId(selected(p))>>]]
                /\ pc' = [pc EXCEPT ![p] = "switch_save"]
                /\ value' = [value EXCEPT ![p] = <<TextId(selected(p))>>]
                /\ UNCHANGED <<result, env, exit>>
    /\ UNCHANGED <<doc, vault, op, pre>>

\* `gho account use` without an id, on any accounts document
InitInteractive ==
    /\ doc \in {<<>>} \cup {<<AccountsToJson(f)>> : f \in AnyRegistry}
    /\ vault = [i \in Ids |-> <<>>]
    /\ env = EnvUnset
    /\ state_doc = <<>>
    /\ doc2 = doc
    /\ NoneStarted

NextInteractive ==
    \E p \in SeqProcs :
        \/ AllIdle /\ SwitchInteractiveNoTty(p) /\ AccountsOnly
        \/ AllIdle /\ SwitchInteractiveBegin(p) /\ AccountsOnly
        \/ \E err \in LoadErrors :
              AllIdle /\ SwitchInteractiveLoadFails(p, err) /\ AccountsOnly
        \/ Prompt(p) /\ AccountsOnly
        \/ SwitchSelected(p) /\ AccountsOnly
        \/ SwitchSave(p) /\ AccountsOnly
        \/ MainExit(p) /\ AccountsOnly
        \/ Return(p) /\ AccountsOnly

SpecInteractive == InitInteractive /\ [][NextInteractive]_vars

\* ------------------------------------------------- the spec parsers alone
\* the longest owner/repo text parsed
MaxSpecLen == 4

\* the characters of the texts: two of a name, and the separator
SpecChars == {"o", "r", "/"}

SpecTexts == UNION {[1..n -> SpecChars] : n \in 0..MaxSpecLen}

\* repo.rs 32: `parse_repo_spec(repo_spec)?`, with the answer kept
ParseRepoSpec(p) ==
    /\ pc[p] = "parse"
    /\ value' = [value EXCEPT ![p] = <<parse_repo_spec(op[p].spec)>>]
    /\ result' = [result EXCEPT ![p] = parse_repo_spec(op[p].spec).result]
    /\ pc' = [pc EXCEPT ![p] = "parse_pr"]
    /\ UNCHANGED <<doc, vault, op, accounts, calls, pre, env, exit>>

\* pr.rs 20: `parse_repo_spec(r)?` on the same text
PrParseRepoSpec(p) ==
    /\ pc[p] = "parse_pr"
    /\ value' = [value EXCEPT ![p] = Append(@, pr_parse_repo_spec(op[p].spec))]
    /\ pc' = [pc EXCEPT ![p] = "done"]
    /\ UNCHANGED <<doc, vault, op, accounts, calls, result, pre, env, exit>>

\* both parsers are handed any text of up to MaxSpecLen characters
InitParse ==
    /\ doc = <<>> /\ doc2 = doc /\ state_doc = <<>>
    /\ vault = [i \in Ids |-> <<>>]
    /\ env = EnvUnset
    /\ pc = [p \in Procs |-> IF p \in SeqProcs THEN "parse" ELSE "idle"]
    /\ \E s \in SpecTexts :
          op = [p \in Procs |-> IF p \in SeqProcs
                                THEN [name |-> "parse_repo_spec", spec |-> s]
                                ELSE NoOp]
    /\ accounts = [p \in Procs |-> AccountsFileDefault]
    /\ calls = [p \in Procs |-> <<>>]
    /\ result = [p \in Procs |-> "none"]
    /\ pre = [p \in Procs |-> <<>>]
    /\ value = [p \in Procs |-> <<>>]
    /\ exit = [p \in Procs |-> <<>>]
    /\ repos = [p \in Procs |-> <<>>]
    /\ cloned = [p \in Procs |-> <<>>]
    /\ accounts2 = [p \in Procs |-> AccountsFileDefault]
    /\ history = NoHistory

NextParse ==
    \E p \in SeqProcs :
        \/ ParseRepoSpec(p) /\ AccountsOnly
        \/ PrParseRepoSpec(p) /\ AccountsOnly

SpecParse == InitParse /\ [][NextParse]_vars

\* ------------------------------------------------------ remote urls alone
\* A url is a sequence of pieces: the two prefixes and the suffix ".git"
\* are one piece each, the other pieces are single characters without a
\* '.', so that ".git" occurs in a text exactly where the piece does.
SshPrefix == "git@github.com:"

HttpsPrefix == "https://github.com/"

GitSuffix == ".git"

\* repo.rs 110-115
build_clone_url(owner, repo, protocol) ==
    <<IF protocol = "ssh" THEN SshPrefix ELSE HttpsPrefix>>
        \o owner \o <<"/">> \o repo \o <<GitSuffix>>

\* str::strip_prefix
strip_prefix(url, prefix) ==
    IF url # <<>> /\ Head(url) = prefix THEN <<Tail(url)>> ELSE <<>>

RECURSIVE trim_end_matches(_, _)
\* str::trim_end_matches: the suffix is removed as often as it is there
trim_end_matches(s, pat) ==
    IF s # <<>> /\ s[Len(s)] = pat
    THEN trim_end_matches(SubSeq(s, 1, Len(s) - 1), pat)
    ELSE s

\* pr.rs 73-87
parse_remote_url(url) ==
    IF strip_prefix(url, SshPrefix) # <<>>
    THEN pr_parse_repo_spec(
             trim_end_matches(strip_prefix(url, SshPrefix)[1], GitSuffix))
    ELSE IF strip_prefix(url, HttpsPrefix) # <<>>
    THEN pr_parse_repo_spec(
             trim_end_matches(strip_prefix(url, HttpsPrefix)[1], GitSuffix))
    ELSE [result |-> "Git", value |-> <<>>]

\* the longest owner and the longest repository name
MaxNameLen == 2

\* the longest url parsed that was not built
MaxUrlLen == 3

\* owners and repository names: no '/' in them
Names == UNION {[1..n -> {"o", "r", GitSuffix}] : n \in 0..MaxNameLen}

Urls ==
    UNION {[1..n -> {SshPrefix, HttpsPrefix, "http://github.com/",
                     "o", "/", GitSuffix}] : n \in 0..MaxUrlLen}

RemoteInputs ==
    [name : {"build_clone_url"}, owner : Names, repo : Names,
     protocol : {"ssh", "https"}]
    \cup [name : {"parse_remote_url"}, url : Urls]

\* repo.rs 33: `build_clone_url(&owner, repo, account.protocol)`
BuildCloneUrl(p) ==
    /\ pc[p] = "build_url"
    /\ value' = [value EXCEPT ![p] =
          <<build_clone_url(op[p].owner, op[p].repo, op[p].protocol)>>]
    /\ pc' = [pc EXCEPT ![p] = "parse_url"]
    /\ UNCHANGED <<doc, vault, op, accounts, calls, result, pre, env, exit>>

\* pr.rs 70: `parse_remote_url(&url)` on the url of the origin remote
ParseRemoteUrl(p) ==
    /\ pc[p] = "parse_url"
    /\ value' = [value EXCEPT ![p] = Append(@, parse_remote_url(value[p][1]))]
    /\ result' = [result EXCEPT ![p] = parse_remote_url(value[p][1]).result]
    /\ pc' = [pc EXCEPT ![p] = "done"]
    /\ UNCHANGED <<doc, vault, op, accounts, calls, pre, env, exit>>

\* a url is built for an owner and a repository and parsed back, or a url
\* that was not built is parsed
InitRemote ==
    /\ doc = <<>> /\ doc2 = doc /\ state_doc = <<>>
    /\ vault = [i \in Ids |-> <<>>]
    /\ env = EnvUnset
    /\ \E o \in RemoteInputs :
        /\ op = [p \in Procs |-> IF p \in SeqProcs THEN o ELSE NoOp]
        /\ pc = [p \in Procs |->
                    IF p \notin SeqProcs THEN "idle"
                    ELSE IF o.name = "build_clone_url" THEN "build_url"
                    ELSE "parse_url"]
        /\ value = [p \in Procs |->
                    IF p \in SeqProcs /\ o.name = "parse_remote_url"
                    THEN <<o.url>> ELSE <<>>]
    /\ accounts = [p \in Procs |-> AccountsFileDefault]
    /\ calls = [p \in Procs |-> <<>>]
    /\ result = [p \in Procs |-> "none"]
    /\ pre = [p \in Procs |-> <<>>]
    /\ exit = [p \in Procs |-> <<>>]
    /\ repos = [p \in Procs |-> <<>>]
    /\ cloned = [p \in Procs |-> <<>>]
    /\ accounts2 = [p \in Procs |-> AccountsFileDefault]
    /\ history = NoHistory

NextRemote ==
    \E p \in SeqProcs :
        \/ BuildCloneUrl(p) /\ AccountsOnly
        \/ ParseRemoteUrl(p) /\ AccountsOnly

SpecRemote == InitRemote /\ [][NextRemote]_vars

\* ------------------------------------------------- the storage layer alone
\* The four methods of Storage are called one after another, as the unit
\* tests of storage.rs do, on documents that are there or not.
AnyState == [last_org : Option({"org"}), last_repo : Option({"repo"})]

StorageBegin(p) ==
    \/ ListBegin(p) /\ UNCHANGED state_doc
    \/ \E err \in LoadErrors : ListLoadFails(p, err) /\ UNCHANGED state_doc
    \/ \E f \in AnyRegistry : SaveAccounts(p, f)
    \/ LoadState(p)
    \/ \E err \in LoadErrors : LoadStateFails(p, err)
    \/ \E st \in AnyState : SaveState(p, st)

StorageOnly == UNCHANGED <<repos, cloned, twin_vars, history>>

NextStorage ==
    \E p \in SeqProcs :
        \/ AllIdle /\ StorageBegin(p) /\ StorageOnly
        \/ MainExit(p) /\ AccountsOnly
        \/ Return(p) /\ AccountsOnly

SpecStorage == Init /\ [][NextStorage]_vars

\* ============================================================== properties
\* the ids of the accounts of a registry
IdsOf(f) == LET all == all_accounts(f) IN {all[i].id : i \in 1..Len(all)}

\* the registry and the vault as they were when p started
PreRegistry(p) == RegistryOf(pre[p][1].doc)

PreVault(p) == pre[p][1].vault

\* p has returned from the command `name`
Did(p, name) == pc[p] = "done" /\ op[p].name = name

\* p has made the call `name` with outcome `ok`
Made(p, name, ok) ==
    \E i \in 1..Len(calls[p]) : calls[p][i].call = name /\ calls[p][i].ok = ok

Called(p, name) == Made(p, name, TRUE) \/ Made(p, name, FALSE)

\* no command is between two of its calls
Quiescent == \A p \in Procs : pc[p] \in {"idle", "done", "printed", "exited"}

\* C1: in sequential use from the empty document, whenever the persisted
\* registry has an active_account_id, an account with that id is in the
\* personal or the work sequence.
C1_ActiveReferencesAccount ==
    LET f == Registry
    IN  f.active_account_id # <<>> => f.active_account_id[1] \in IdsOf(f)

\* a remove has succeeded and the registry still has an active account
C1_Witness ==
    \E p \in Procs :
        /\ Did(p, "remove") /\ result[p] = "Ok"
        /\ PreRegistry(p).active_account_id # <<>>
        /\ Len(all_accounts(PreRegistry(p))) = 2
        /\ Registry.active_account_id # <<>>

\* C2: in sequential use from the empty document, no id occurs twice across
\* the personal and work sequences of the persisted registry.
C2_IdsUnique ==
    LET all == all_accounts(Registry)
    IN  \A i, j \in 1..Len(all) : i # j => all[i].id # all[j].id

\* an add of an id present under the other kind has been refused
C2_Witness ==
    \E p \in Procs :
        /\ Did(p, "add") /\ result[p] = "InvalidInput"
        /\ find_account(Registry, op[p].id) # <<>>
        /\ find_account(Registry, op[p].id)[1].kind # op[p].kind

\* C3: between operations of sequential use (saves and vault calls may
\* fail), every account of the persisted registry has a secret in the vault.
C3_NoSecretlessAccount ==
    Quiescent => \A id \in IdsOf(Registry) : vault[id] # <<>>

\* C4: remove calls delete_token only after a successful save_accounts, and
\* when the save fails the vault entry of the id is as it was.
C4_DeleteOnlyAfterPersist ==
    \A p \in Procs :
        op[p].name = "remove" =>
            /\ \A i \in 1..Len(calls[p]) :
                  calls[p][i].call = "delete_token" =>
                      \E j \in 1..(i - 1) :
                          /\ calls[p][j].call = "save_accounts"
                          /\ calls[p][j].ok
            /\ (pc[p] = "done" /\ Made(p, "save_accounts", FALSE))
                  => vault[op[p].id] = PreVault(p)[op[p].id]

\* C5: when add's store_token succeeded and its save_accounts failed, add
\* has called delete_token for the id after the save, and it returns the
\* error of the save, whether or not that delete succeeded.
C5_RollbackThenSaveError ==
    \A p \in Procs :
        (Did(p, "add") /\ Made(p, "store_token", TRUE)
                       /\ Made(p, "save_accounts", FALSE)) =>
            /\ Len(calls[p]) = 4
            /\ calls[p][3].call = "save_accounts"
            /\ calls[p][4].call = "delete_token"
            /\ calls[p][4].id = op[p].id
            /\ result[p] = "Io"

\* an add whose save failed and whose cleanup delete failed too
C5_Witness ==
    \E p \in Procs :
        /\ Did(p, "add") /\ Made(p, "store_token", TRUE)
        /\ Made(p, "save_accounts", FALSE)
        /\ Made(p, "delete_token", FALSE)

\* the id of p's add was neither registered nor in the vault when p started
FreshId(p) ==
    /\ op[p].id \notin IdsOf(PreRegistry(p))
    /\ PreVault(p)[op[p].id] = <<>>

\* C6 (as claimed): an add of a fresh id that returns an error leaves
\* neither a registry entry nor a vault entry for the id.
C6_FailedAddLeavesNeither ==
    \A p \in Procs :
        (Did(p, "add") /\ result[p] # "Ok" /\ FreshId(p)) =>
            /\ op[p].id \notin IdsOf(Registry)
            /\ vault[op[p].id] = <<>>

\* C6 (amended): an add of a fresh id that returns an error leaves no
\* registry entry for the id, and leaves a vault entry for it only when the
\* save failed after the store and the cleanup delete_token failed as well;
\* the entry left is then the secret just stored.
C6_FailedAddLeavesNeitherUnlessCleanupFails ==
    \A p \in Procs :
        (Did(p, "add") /\ result[p] # "Ok" /\ FreshId(p)) =>
            /\ op[p].id \notin IdsOf(Registry)
            /\ \/ vault[op[p].id] = <<>>
               \/ /\ Made(p, "store_token", TRUE)
                  /\ Made(p, "save_accounts", FALSE)
                  /\ Made(p, "delete_token", FALSE)
                  /\ vault[op[p].id] = <<op[p].token>>

\* a failed add of a fresh id whose cleanup delete succeeded
C6_Witness ==
    \E p \in Procs :
        /\ Did(p, "add") /\ result[p] # "Ok" /\ FreshId(p)
        /\ Made(p, "delete_token", TRUE)

\* C7: when add's store_token fails, add returns the keychain error, the
\* document is as it was, and save_accounts has not been called.
C7_StoreFailureAborts ==
    \A p \in Procs :
        (Did(p, "add") /\ Made(p, "store_token", FALSE)) =>
            /\ result[p] = "Keychain"
            /\ doc = pre[p][1].doc
            /\ ~Called(p, "save_accounts")

\* an add on a non-empty registry whose store_token failed
C7_Witness ==
    \E p \in Procs :
        /\ Did(p, "add") /\ Made(p, "store_token", FALSE)
        /\ all_accounts(PreRegistry(p)) # <<>>

\* p's add found its id in the registry it loaded
AddOfExistingId(p) ==
    /\ Did(p, "add") /\ Made(p, "load_accounts", TRUE)
    /\ op[p].id \in IdsOf(PreRegistry(p))

\* what C8 says of such an add, but for the error returned
DuplicateAddChangesNothing(p) ==
    /\ ~Called(p, "store_token")
    /\ ~Called(p, "save_accounts")
    /\ doc = pre[p][1].doc
    /\ vault = PreVault(p)

\* C8 (as claimed): add of an id present in either partition fails with
\* DuplicateAccount, stores nothing, saves nothing, and leaves document and
\* vault as they were.
C8_DuplicateAddFailsDuplicateAccount ==
    \A p \in Procs :
        AddOfExistingId(p) =>
            result[p] = "DuplicateAccount" /\ DuplicateAddChangesNothing(p)

\* C8 (amended): add of an id present in either partition fails with
\* InvalidInput, stores nothing, saves nothing, and leaves document and
\* vault as they were.
C8_DuplicateAddFailsInvalidInput ==
    \A p \in Procs :
        AddOfExistingId(p) =>
            result[p] = "InvalidInput" /\ DuplicateAddChangesNothing(p)

\* an add of an id registered under the other kind, its secret in the vault
C8_Witness ==
    \E p \in Procs :
        /\ AddOfExistingId(p)
        /\ find_account(PreRegistry(p), op[p].id)[1].kind # op[p].kind
        /\ vault[op[p].id] # <<>>
        /\ vault[op[p].id] # <<op[p].token>>

\* C9: a step that brings a new id into the persisted registry is the
\* successful save of an add of that id whose store_token had already
\* succeeded, the secret being in the vault at the time of the save.
C9_StoreBeforeSave ==
    [][\A id \in Ids :
          (id \notin IdsOf(Registry) /\ id \in IdsOf(Registry')) =>
              \E p \in Procs :
                  /\ op[p].name = "add" /\ op[p].id = id
                  /\ pc[p] = "add_save"
                  /\ calls[p][Len(calls[p])] = Call("store_token", id, TRUE)
                  /\ calls'[p][Len(calls'[p])] = Call("save_accounts", 0, TRUE)
                  /\ vault[id] = <<op[p].token>>]_vars

\* an add has succeeded
C9_Witness ==
    \E p \in Procs :
        /\ Did(p, "add") /\ result[p] = "Ok"
        /\ op[p].id \in IdsOf(Registry)
        /\ op[p].id \notin IdsOf(PreRegistry(p))

Without(seq, id) == SelectSeq(seq, LAMBDA a : a.id # id)

C12_RemoveAbsent ==
    \A p \in Procs :
        (Did(p, "remove") /\ Made(p, "load_accounts", TRUE)
                          /\ op[p].id \notin IdsOf(PreRegistry(p))) =>
            /\ result[p] = "AccountNotFound"
            /\ ~Called(p, "delete_token")
            /\ ~Called(p, "store_token")
            /\ ~Called(p, "get_token")
            /\ ~Called(p, "save_accounts")
            /\ doc = pre[p][1].doc
            /\ vault = PreVault(p)

\* a remove of an absent id whose orphaned secret is in the vault, on a
\* registry that has another account
C12_Witness ==
    \E p \in Procs :
        /\ Did(p, "remove") /\ Made(p, "load_accounts", TRUE)
        /\ op[p].id \notin IdsOf(PreRegistry(p))
        /\ all_accounts(PreRegistry(p)) # <<>>
        /\ vault[op[p].id] # <<>>

\* C13: in remove(id) of a present id, when delete_token fails, remove
\* returns success and the persisted registry is the one without the
\* account.
C13_DeleteFailureIgnored ==
    \A p \in Procs :
        (Did(p, "remove") /\ op[p].id \in IdsOf(PreRegistry(p))
                          /\ Made(p, "delete_token", FALSE)) =>
            /\ result[p] = "Ok"
            /\ op[p].id \notin IdsOf(Registry)

\* p made no keychain call and the vault is as it was
NoVaultCall(p) ==
    /\ ~Called(p, "store_token")
    /\ ~Called(p, "delete_token")
    /\ ~Called(p, "get_token")
    /\ vault = PreVault(p)

\* C14: switch(id) of an id present in the registry it loaded persists that
\* registry with the active pointer set to id and nothing else changed
\* (failing only with the error of a save that wrote nothing); of an absent
\* id it fails with AccountNotFound without a save; it never calls the
\* keychain.
C14_Switch ==
    \A p \in Procs :
        (Did(p, "switch") /\ Made(p, "load_accounts", TRUE)) =>
            /\ NoVaultCall(p)
            /\ IF op[p].id \in IdsOf(PreRegistry(p))
               THEN \/ /\ result[p] = "Ok"
                       /\ Registry = [PreRegistry(p) EXCEPT
                                         !.active_account_id = <<op[p].id>>]
                    \/ /\ result[p] = "Io"
                       /\ Made(p, "save_accounts", FALSE)
                       /\ doc = pre[p][1].doc
               ELSE /\ result[p] = "AccountNotFound"
                    /\ ~Called(p, "save_accounts")
                    /\ doc = pre[p][1].doc

\* a successful switch from one of two accounts to the other
C14_Witness ==
    \E p \in Procs :
        /\ Did(p, "switch") /\ result[p] = "Ok"
        /\ Len(all_accounts(PreRegistry(p))) = 2
        /\ PreRegistry(p).active_account_id # <<>>
        /\ PreRegistry(p).active_account_id # <<op[p].id>>
        /\ Registry.active_account_id = <<op[p].id>>

\* the active pointer of a registry names one of its accounts
Resolvable(f) ==
    /\ f.active_account_id # <<>>
    /\ f.active_account_id[1] \in IdsOf(f)

\* `a` is an account of the registry with the id of its active pointer
IsActiveOf(f, a) ==
    /\ a.id = f.active_account_id[1]
    /\ \E i \in 1..Len(all_accounts(f)) : all_accounts(f)[i] = a

\* C15: show fails with NoActiveAccount when the active pointer is unset
\* and when it names no account of the registry; otherwise it returns the
\* account whose id is the active pointer.
C15_Show ==
    \A p \in Procs :
        (Did(p, "show") /\ Made(p, "load_accounts", TRUE)) =>
            IF Resolvable(PreRegistry(p))
            THEN /\ result[p] = "Ok"
                 /\ value[p] # <<>>
                 /\ IsActiveOf(PreRegistry(p), value[p][1])
            ELSE /\ result[p] = "NoActiveAccount"
                 /\ value[p] = <<>>

\* show on a registry that has accounts and a pointer naming none of them
C15_Witness ==
    \E p \in Procs :
        /\ Did(p, "show") /\ Made(p, "load_accounts", TRUE)
        /\ PreRegistry(p).active_account_id # <<>>
        /\ all_accounts(PreRegistry(p)) # <<>>
        /\ ~Resolvable(PreRegistry(p))

\* the secret a retrieval for `id` yields when it succeeds
Retrieved(id) ==
    IF env_var(env.GH_TOKEN) # <<>> THEN env.GH_TOKEN[1]
    ELSE IF env_var(env.GITHUB_TOKEN) # <<>> THEN env.GITHUB_TOKEN[1]
    ELSE vault[id][1]

\* C16: get_active_with_token resolves the active account before it calls
\* get_token: with no resolvable active account it fails with
\* NoActiveAccount and get_token is not called; otherwise get_token is
\* called for the id of the active account, its error is returned as it is,
\* and on success the account and the retrieved secret are returned.
C16_GetActiveWithToken ==
    \A p \in Procs :
        (Did(p, "get_active_with_token") /\ Made(p, "load_accounts", TRUE)) =>
            IF Resolvable(PreRegistry(p))
            THEN /\ Len(calls[p]) = 2
                 /\ calls[p][2].call = "get_token"
                 /\ calls[p][2].id = PreRegistry(p).active_account_id[1]
                 /\ IF calls[p][2].ok
                    THEN /\ result[p] = "Ok"
                         /\ value[p] # <<>>
                         /\ IsActiveOf(PreRegistry(p), value[p][1].account)
                         /\ value[p][1].token = Retrieved(calls[p][2].id)
                    ELSE /\ result[p] = "Keychain"
                         /\ value[p] = <<>>
            ELSE /\ result[p] = "NoActiveAccount"
                 /\ ~Called(p, "get_token")
                 /\ value[p] = <<>>

\* the secret of the active account came from the keychain, which holds a
\* different secret for another id
C16_Witness ==
    \E p \in Procs :
        /\ Did(p, "get_active_with_token") /\ result[p] = "Ok"
        /\ env = EnvUnset
        /\ \E other \in Ids :
              /\ vault[other] # <<>>
              /\ vault[other] # <<value[p][1].token>>

\* every call p made succeeded
NoFailure(p) == \A i \in 1..Len(calls[p]) : calls[p][i].ok

\* the stages of the scenario: one personal account a, active
OnePersonal(f, a) ==
    /\ Len(f.personal) = 1 /\ f.personal[1].id = a
    /\ f.work = <<>>
    /\ f.active_account_id = <<a>>

\* one personal account a and one work account w, `active` being active
PersonalAndWork(f, a, w, active) ==
    /\ Len(f.personal) = 1 /\ f.personal[1].id = a
    /\ Len(f.work) = 1 /\ f.work[1].id = w
    /\ f.active_account_id = <<active>>

\* no personal account, one work account w, active
OneWork(f, w) ==
    /\ f.personal = <<>>
    /\ Len(f.work) = 1 /\ f.work[1].id = w
    /\ f.active_account_id = <<w>>

\* C17: without failures, each step of the scenario add(A1, personal),
\* add(W1, work), switch(W1), remove(A1), remove(W1), show leads from the
\* registry the step before it left to the registry the scenario names:
\* one personal account, active A1; personal and work, active still A1;
\* active W1; no personal account, active still W1; nothing left and no
\* active account, where show fails with NoActiveAccount.
C17_Scenario ==
    \A p \in Procs :
        (pc[p] = "done" /\ NoFailure(p)) =>
            LET before == PreRegistry(p)
                after == Registry
            IN  /\ (op[p].name = "add" /\ op[p].kind = "personal"
                        /\ before = AccountsFileDefault)
                    => (result[p] = "Ok" /\ OnePersonal(after, op[p].id))
                /\ \A a \in Ids :
                     (op[p].name = "add" /\ op[p].kind = "work"
                         /\ a # op[p].id /\ OnePersonal(before, a))
                     => /\ result[p] = "Ok"
                        /\ PersonalAndWork(after, a, op[p].id, a)
                        /\ after.personal = before.personal
                /\ \A a \in Ids :
                     (op[p].name = "switch"
                         /\ PersonalAndWork(before, a, op[p].id, a))
                     => /\ result[p] = "Ok"
                        /\ PersonalAndWork(after, a, op[p].id, op[p].id)
                        /\ after.personal = before.personal
                        /\ after.work = before.work
                /\ \A w \in Ids :
                     (op[p].name = "remove"
                         /\ PersonalAndWork(before, op[p].id, w, w))
                     => /\ result[p] = "Ok"
                        /\ OneWork(after, w)
                        /\ after.work = before.work
                /\ (op[p].name = "remove" /\ OneWork(before, op[p].id))
                    => (result[p] = "Ok" /\ after = AccountsFileDefault)
                /\ (op[p].name = "show" /\ before = AccountsFileDefault)
                    => result[p] = "NoActiveAccount"

\* the last remove of the scenario has run: the work account was the only
\* one left and active, its secret was in the vault, and nothing is left
C17_Witness ==
    \E p \in Procs :
        /\ Did(p, "remove") /\ NoFailure(p) /\ result[p] = "Ok"
        /\ OneWork(PreRegistry(p), op[p].id)
        /\ PreVault(p)[op[p].id] # <<>>
        /\ \A id \in Ids : vault[id] = <<>>
        /\ Registry = AccountsFileDefault

\* C18: every account of the persisted registry is in the partition of its
\* kind; after a successful add, find_account of the added id yields the
\* added account, which is in the partition of its kind and not in the
\* other, and find_account of every id added before yields what it did.
C18_AddThenFind ==
    /\ \A i \in 1..Len(Registry.personal) : Registry.personal[i].kind = "personal"
    /\ \A i \in 1..Len(Registry.work) : Registry.work[i].kind = "work"
    /\ \A p \in Procs :
        (Did(p, "add") /\ result[p] = "Ok") =>
            LET before == PreRegistry(p)
                after == Registry
                added == Account(op[p].id, op[p].kind, op[p].profile)
            IN  /\ find_account(after, op[p].id) = <<added>>
                /\ IF op[p].kind = "personal"
                   THEN /\ position(after.personal, op[p].id) # 0
                        /\ position(after.work, op[p].id) = 0
                   ELSE /\ position(after.work, op[p].id) # 0
                        /\ position(after.personal, op[p].id) = 0
                /\ \A id \in IdsOf(before) :
                      find_account(after, id) = find_account(before, id)

\* a successful add of a work account to a registry with a personal one
C18_Witness ==
    \E p \in Procs :
        /\ Did(p, "add") /\ result[p] = "Ok" /\ op[p].kind = "work"
        /\ PreRegistry(p).personal # <<>>

C20_SaveLoadRoundTrip ==
    \A p \in Procs :
        (pc[p] = "done" /\ Made(p, "save_accounts", TRUE)) =>
            load_accounts = accounts[p]

\* a saved registry with no active account, holding an account with a
\* default_org and a clone_dir
C20_Witness ==
    \E p \in Procs :
        /\ pc[p] = "done" /\ Made(p, "save_accounts", TRUE)
        /\ accounts[p].active_account_id = <<>>
        /\ \E i \in 1..Len(all_accounts(accounts[p])) :
              /\ all_accounts(accounts[p])[i].default_org # <<>>
              /\ all_accounts(accounts[p])[i].clone_dir # <<>>

\* C21: load_accounts with no accounts document returns Ok with the
\* all-empty registry (no personal account, no work account, no active
\* pointer) and leaves the document absent; load_state with no state
\* document returns Ok with the all-empty state and leaves it absent.
C21_LoadOfMissingDocument ==
    \A p \in Procs :
        /\ (Did(p, "list") /\ pre[p][1].doc = <<>>) =>
              /\ result[p] = "Ok"
              /\ value[p] = <<[personal |-> <<>>, work |-> <<>>,
                               active_account_id |-> <<>>]>>
              /\ doc = <<>>
        /\ (Did(p, "load_state") /\ pre[p][1].state_doc = <<>>) =>
              /\ result[p] = "Ok"
              /\ value[p] = <<[last_org |-> <<>>, last_repo |-> <<>>]>>
              /\ state_doc = <<>>

\* load_state found no state document while there is an accounts document
C21_Witness ==
    \E p \in Procs :
        /\ Did(p, "load_state") /\ pre[p][1].state_doc = <<>>
        /\ doc # <<>>

\* the commands that only read
Readers == {"list", "show", "get_active_with_token"}

\* C22: list, show and get_active_with_token, run on any accounts document
\* and any vault, call neither save_accounts nor store_token nor
\* delete_token and leave the document and the vault as they found them,
\* whatever they return; a list whose load succeeds returns exactly the
\* registry of the document.
C22_ReadOnly ==
    \A p \in Procs :
        (pc[p] # "idle" /\ op[p].name \in Readers) =>
            /\ doc = pre[p][1].doc
            /\ vault = pre[p][1].vault
            /\ \A i \in 1..Len(calls[p]) :
                  calls[p][i].call \in {"load_accounts", "get_token"}
            /\ (Did(p, "list") /\ Made(p, "load_accounts", TRUE)) =>
                  /\ result[p] = "Ok"
                  /\ value[p] = <<RegistryOf(doc)>>

\* list has returned a registry of two accounts whose active pointer names
\* neither, with secrets in the vault
C22_Witness ==
    \E p \in Procs :
        /\ Did(p, "list") /\ result[p] = "Ok"
        /\ Len(all_accounts(value[p][1])) = 2
        /\ value[p][1].active_account_id # <<>>
        /\ ~Resolvable(value[p][1])
        /\ \E id \in Ids : vault[id] # <<>>

\* p's add returned success and its account is not in the document
Lost(p) == Did(p, "add") /\ result[p] = "Ok" /\ op[p].id \notin IdsOf(Registry)

\* C23: with two invocations interleaved at their loads and saves, when two
\* adds of distinct ids both loaded the same document and both returned
\* success, the document holds the account of exactly one of them (the one
\* that saved last: the document is the registry it wrote) and the vault
\* holds the secrets of both, the lost account's included; when one
\* loaded what the other had saved, neither is lost.
C23_LostUpdate ==
    \A p, q \in Procs :
        (/\ p # q
         /\ Did(p, "add") /\ result[p] = "Ok"
         /\ Did(q, "add") /\ result[q] = "Ok"
         /\ op[p].id # op[q].id) =>
            IF pre[p][1].doc = pre[q][1].doc
            THEN /\ Lost(p) # Lost(q)
                 /\ Lost(p) => Registry = accounts[q]
                 /\ vault[op[p].id] = <<op[p].token>>
                 /\ vault[op[q].id] = <<op[q].token>>
            ELSE ~Lost(p) /\ ~Lost(q)

\* both adds returned success, the document has one account only, and the
\* secret of the other is in the vault
C23_Witness ==
    \E p, q \in Procs :
        /\ p # q
        /\ Did(q, "add") /\ result[q] = "Ok"
        /\ Lost(p)
        /\ op[p].id # op[q].id
        /\ Len(all_accounts(Registry)) = 1
        /\ vault[op[p].id] = <<op[p].token>>

\* p's get_active_with_token has called get_token: the entry of that call
TokenCall(p) == calls[p][Len(calls[p])]

HasTokenCall(p) == Did(p, "get_active_with_token") /\ Called(p, "get_token")

\* an override counts as set whatever its value is
IsSet(x) == x # <<>>

\* C24: a retrieval returns GH_TOKEN whenever it is set, else GITHUB_TOKEN
\* whenever it is set, in both cases without asking the store (so also when
\* the store has no entry for the id); only when neither is set is the
\* store asked for the id.
C24_OverrideWhenSet ==
    \A p \in Procs :
        HasTokenCall(p) =>
            LET c == TokenCall(p)
            IN  IF IsSet(env.GH_TOKEN)
                THEN /\ ~c.keyring /\ c.ok /\ result[p] = "Ok"
                     /\ value[p][1].token = env.GH_TOKEN[1]
                ELSE IF IsSet(env.GITHUB_TOKEN)
                THEN /\ ~c.keyring /\ c.ok /\ result[p] = "Ok"
                     /\ value[p][1].token = env.GITHUB_TOKEN[1]
                ELSE /\ c.keyring
                     /\ c.ok => /\ result[p] = "Ok"
                                /\ <<value[p][1].token>> = vault[c.id]
                     /\ vault[c.id] = <<>> => ~c.ok

\* C25: the document of a run of add, switch and remove commands and the
\* document of the run that differs from it only in the secrets given to
\* add are the same after every step, whichever calls fail.
C25_DocumentIndependentOfSecrets == doc2 = doc

\* both runs have added a second account, each with its own secret for it
C25_Witness ==
    \E p \in Procs :
        /\ Did(p, "add") /\ result[p] = "Ok"
        /\ Len(all_accounts(Registry)) = 2
        /\ doc2 # <<>>
        /\ vault[op[p].id] = <<op[p].token>>
        /\ twin_op(op[p]).token # op[p].token

\* the answer of the listing request p made
ListingOf(p) ==
    LET k == CHOOSE i \in 1..Len(calls[p]) : calls[p][i].call = "http"
    IN  calls[p][k].listing

\* p tested the target directory of repo: the repository was attempted
Attempted(p, repo) ==
    \E i \in 1..Len(calls[p]) :
        calls[p][i].call = "exists" /\ calls[p][i].id = repo

\* git ran for repo and exited successfully
Succeeded(p, repo) ==
    \E i \in 1..Len(calls[p]) : calls[p][i] = Call("git_exit", repo, TRUE)

\* C26: when a bulk clone has listed the organization's repositories, it
\* returns success, every repository of the listing was attempted, whatever
\* happened to the ones before it (directory already there, git failing),
\* and the list returned is the listing restricted to the repositories
\* whose clone succeeded.
C26_BulkCloneNeverAborts ==
    \A p \in Procs :
        (Did(p, "clone_org") /\ Made(p, "http", TRUE)) =>
            /\ result[p] = "Ok"
            /\ \A i \in 1..Len(ListingOf(p)) : Attempted(p, ListingOf(p)[i])
            /\ value[p] = <<SelectSeq(ListingOf(p), LAMBDA r : Succeeded(p, r))>>

RemoteOps == {"repo_list", "clone", "clone_org", "pr_list"}

\* the calls that reach the network, git or the working directory
RemoteCalls == {"http", "git", "git_exit", "exists"}

Slashes(s) == {i \in 1..Len(s) : s[i] = "/"}

\* what the claim says of a text: with exactly one separator, the text
\* before it and the text after it; a validation error otherwise
Expected(s) ==
    IF Cardinality(Slashes(s)) = 1
    THEN LET k == CHOOSE i \in Slashes(s) : TRUE
         IN  [result |-> "Ok",
              value |-> <<[owner |-> SubSeq(s, 1, k - 1),
                           repo |-> SubSeq(s, k + 1, Len(s))]>>]
    ELSE [result |-> "InvalidInput", value |-> <<>>]

\* C28: an owner/repo text parses exactly when it has exactly one '/',
\* to the text before it and the text after it; with no '/' or more than
\* one it is an InvalidInput error; and the parser of the pr command gives
\* the same answer as the parser of the repo command on every text.
C28_ParseRepoSpec ==
    \A p \in Procs :
        Did(p, "parse_repo_spec") =>
            /\ value[p][1] = Expected(op[p].spec)
            /\ value[p][2] = value[p][1]
            /\ result[p] = Expected(op[p].spec).result

\* both parsers have answered on "o/r": owner "o", repo "r"
C28_Witness ==
    \E p \in Procs :
        /\ Did(p, "parse_repo_spec")
        /\ op[p].spec = <<"o", "/", "r">>
        /\ value[p][1].value = <<[owner |-> <<"o">>, repo |-> <<"r">>]>>
        /\ value[p][2].result = "Ok"

\* the account whose label was selected at the prompt of p
Picked(p) ==
    LET k == CHOOSE i \in 1..Len(calls[p]) : calls[p][i].call = "prompt"
    IN  calls[p][k].id

\* C29: switch_interactive without a terminal returns TtyRequired and has
\* loaded nothing; with a terminal and a loaded registry of zero accounts
\* it returns a configuration error; and when the label of an offered
\* account was selected (and the registry was read again and saved) it
\* returns success with the active pointer of the document naming exactly
\* that account.
C29_SwitchInteractive ==
    \A p \in Procs :
        Did(p, "switch_interactive") =>
            /\ ~op[p].tty => (result[p] = "TtyRequired" /\ calls[p] = <<>>)
            /\ (op[p].tty /\ calls[p][1].ok
                /\ all_accounts(RegistryOf(pre[p][1].doc)) = <<>>) =>
                  result[p] = "Config"
            /\ (Made(p, "prompt", TRUE) /\ ~Made(p, "load_accounts", FALSE)
                /\ ~Made(p, "save_accounts", FALSE)) =>
                  /\ result[p] = "Ok"
                  /\ Registry.active_account_id = <<Picked(p)>>

\* C30: a process that has ended exited with code 0 and nothing on the
\* diagnostic stream when its operation returned success, and with code 1
\* and the message of the error on the diagnostic stream when it returned
\* an error, whichever error it is.
C30_ExitCode ==
    \A p \in Procs :
        pc[p] = "exited" =>
            /\ exit[p] # <<>>
            /\ (result[p] = "Ok") = (exit[p][1].code = 0)
            /\ exit[p][1].code \in {0, 1}
            /\ (result[p] = "Ok") = (exit[p][1].stderr = <<>>)
            /\ result[p] # "Ok" =>
                  /\ exit[p][1].stderr[1] = "Error: "
                  /\ exit[p][1].stderr[2] # ""

\* a remove whose save failed after its secret was deleted has exited
\* with code 1
C30_Witness ==
    \E p \in Procs :
        /\ pc[p] = "exited" /\ op[p].name = "remove"
        /\ Made(p, "save_accounts", FALSE)
        /\ exit[p] = <<[code |-> 1,
                        stderr |-> <<"Error: ", Display("Io")>>]>>

\* C31: every listing request, of a user's repositories, of an
\* organization's repositories or of the open pull requests, carries the
\* page size the command was given, except that a page size of 0 is
\* replaced by 30.
C31_PageSize ==
    \A p \in Procs :
        \A i \in 1..Len(calls[p]) :
            calls[p][i].call = "http" =>
                /\ calls[p][i].id[1] \in {"users", "orgs", "pulls"}
                /\ op[p].limit = 0 => calls[p][i].per_page = 30
                /\ op[p].limit # 0 => calls[p][i].per_page = op[p].limit

\* the open pull requests were asked for with a page size of 0
C31_Witness ==
    \E p \in Procs :
        /\ Did(p, "pr_list") /\ op[p].limit = 0
        /\ \E i \in 1..Len(calls[p]) :
              /\ calls[p][i].call = "http" /\ calls[p][i].id[1] = "pulls"
              /\ calls[p][i].per_page = 30

\* C32: a url built by build_clone_url for an owner and a repository
\* without a slash, with either protocol, is parsed by parse_remote_url to
\* that owner and that repository; and a url that starts with neither
\* "git@github.com:" nor "https://github.com/" is rejected.
C32_RemoteUrlRoundTrip ==
    \A p \in Procs :
        /\ Did(p, "build_clone_url") =>
              value[p][2] = [result |-> "Ok",
                             value |-> <<[owner |-> op[p].owner,
                                          repo |-> op[p].repo]>>]
        /\ (Did(p, "parse_remote_url")
            /\ (op[p].url = <<>> \/ Head(op[p].url) \notin {SshPrefix, HttpsPrefix})) =>
              result[p] # "Ok"

\* C33: with add, switch and remove invocations interleaved at every load,
\* vault call and save, every accounts document that is on disk has no id
\* twice across its partitions, and its active pointer, when set, names an
\* account of that same document.
C33_RacedDocumentWellFormed ==
    doc # <<>> =>
        /\ Cardinality(IdsOf(RegistryOf(doc))) = Len(all_accounts(RegistryOf(doc)))
        /\ RegistryOf(doc).active_account_id # <<>> =>
              RegistryOf(doc).active_account_id[1] \in IdsOf(RegistryOf(doc))

\* a remove and a switch of the same id loaded the same document, the
\* remove saved first and the switch after it: the account is back, and
\* active
C33_Witness ==
    \E p, q \in Procs :
        /\ p # q
        /\ Did(p, "remove") /\ result[p] = "Ok"
        /\ Did(q, "switch") /\ result[q] = "Ok"
        /\ op[p].id = op[q].id
        /\ pre[p][1].doc = pre[q][1].doc
        /\ Registry.active_account_id = <<op[q].id>>
        /\ Len(all_accounts(Registry)) = 2

Writers == {"add", "switch", "remove"}

\* C34: when an add, a switch or a remove has returned an error, the
\* accounts document is the one it was when the call started, and so is
\* the vault.
C34_ErrorLeavesStoresAsTheyWere ==
    \A p \in Procs :
        (pc[p] = "done" /\ op[p].name \in Writers /\ result[p] # "Ok") =>
            /\ doc = pre[p][1].doc
            /\ vault = PreVault(p)

C36_IdReusableSecretCurrent ==
    /\ Quiescent =>
          \A id \in IdsOf(Registry) :
              /\ history[id].secret # <<>>
              /\ vault[id] = history[id].secret
    /\ \A p \in Procs :
          /\ (Did(p, "remove") /\ result[p] = "Ok") =>
                op[p].id \notin IdsOf(Registry)
          /\ (Did(p, "add") /\ op[p].id \notin IdsOf(PreRegistry(p))) =>
                /\ result[p] = "Ok"
                /\ op[p].id \in IdsOf(Registry)
                /\ vault[op[p].id] = <<op[p].token>>

\* an id that was added with one secret and removed has been added again
\* with the other secret, which is the one in the vault now
C36_Witness ==
    \E p \in Procs :
        /\ Did(p, "add") /\ result[p] = "Ok"
        /\ history[op[p].id].removed = <<"tok-aaa">>
        /\ op[p].token = "tok-bbb"
        /\ history[op[p].id].secret = <<"tok-bbb">>
        /\ vault[op[p].id] = <<"tok-bbb">>

====
